---- MODULE Spec2Model ----
(***************************************************************************)
(* Models of the programs of the repository, one specification each.      *)
(*                                                                         *)
(* Spec: the user-space allocator of Assignment-3/code/2021MT60949mmu.h    *)
(* (my_malloc / my_calloc / my_free) on top of an explicit model of the    *)
(* process address space: pages handed out by mmap, the bytes of every     *)
(* block header as they lie in memory, and the caller's data.              *)
(*                                                                         *)
(* SpecRW: the two reader-writer locks of Assignment-4/code                *)
(* (rwlock-reader-pref.c, rwlock-writer-pref.c) under reader and writer    *)
(* threads, one step per statement.                                        *)
(*                                                                         *)
(* SpecPC: the bounded buffer of Assignment-4/code/prod-cons.c under its   *)
(* producer and consumer threads.                                          *)
(*                                                                         *)
(* SpecMT: two threads that call my_malloc of the allocator at the same    *)
(* time, one step per access to the shared registry and arena cursor.      *)
(*                                                                         *)
(* SpecTLB: the four simulate functions of Assignment-3/code/2021MT60949.cpp *)
(* on one test case, one step per page access.                             *)
(*                                                                         *)
(* The variables of the programs a specification is not about stay at      *)
(* rest.                                                                   *)
(*                                                                         *)
(* Layout assumed (LP64): sizeof(block_header_t) = 32, fields              *)
(*   size @0 (8 bytes), is_free @8 (4), is_mmap @12 (4),                   *)
(*   next @16 (8), magic @24 (4), padding @28 (4).                         *)
(* Memory is kept per 16-byte granule as a cell [q, a, b]: q the 8-byte    *)
(* word at +0, a the int at +8, b the int at +12.  A header at h is the    *)
(* two cells h and h+16.  Every address the allocator computes is a        *)
(* multiple of 16 (or is unmapped), so two headers either coincide, are    *)
(* disjoint, or overlap by exactly one cell.                               *)
(***************************************************************************)
EXTENDS Integers, Sequences, FiniteSets, TLC

VARIABLES mem, dirty, maps, free_list, heap_start, heap_end, st,
          live, dead, hist, nwrites, script

\* The reader-writer locks: which of the two programs runs (pref), the
\* semaphores, the two counters, and each thread's position and local.
VARIABLES pref, sem, readers, writers, pc, num_readers

\* The allocator and its caller.
mvars == <<mem, dirty, maps, free_list, heap_start, heap_end, st, live, dead,
           hist, nwrites, script>>

rwvars == <<pref, sem, readers, writers, pc, num_readers>>

\* The bounded buffer: the globals of prod-cons.c, the mutex (its owner, or
\* "free"), the threads waiting on each condition variable, the input file
\* still to be read, the values written to the output file, and for each
\* thread its position (ppc) and the producer's local value.  The buffer
\* state on the line the consumer writes in the current round of its loop
\* is in logged, and the values put so far are recorded in produced.
VARIABLES buffer, fill, use, count, producer_done, mutex, cond, ppc, input,
          value, output, logged, produced

pcvars == <<buffer, fill, use, count, producer_done, mutex, cond, ppc, input,
            value, output, logged, produced>>

\* Two threads that call my_malloc without a lock: for each thread its
\* position in my_malloc (tpc), the size it asks for, its local block and
\* the pointer returned to it.  "main" in tpc is the thread that starts them.
VARIABLES tpc, tsize, tblk, tret

mtvars == <<tpc, tsize, tblk, tret>>

\* The TLB simulator: the TLB size and the page numbers of a test case, the
\* simulate function that runs (policy), the number of accesses it has
\* handled (idx), its map of resident pages, its list and the hit counts.
VARIABLES tlbSize, pageNumbers, policy, idx, tlbEntries, tlbList, hits

tlbvars == <<tlbSize, pageNumbers, policy, idx, tlbEntries, tlbList, hits>>

vars == <<mvars, rwvars, pcvars, mtvars, tlbvars>>

\* No reader-writer lock program runs.
RWIdle ==
  /\ pref = "none"
  /\ sem = <<>>
  /\ readers = 0
  /\ writers = 0
  /\ pc = <<>>
  /\ num_readers = <<>>

\* No threads share the allocator.
MTIdle ==
  /\ tpc = <<>>
  /\ tsize = <<>>
  /\ tblk = <<>>
  /\ tret = <<>>

\* The TLB simulator does not run.
TLBIdle ==
  /\ tlbSize = 0
  /\ pageNumbers = <<>>
  /\ policy = "none"
  /\ idx = 0
  /\ tlbEntries = <<>>
  /\ tlbList = <<>>
  /\ hits = <<>>

\* The producer-consumer program does not run.
PCIdle ==
  /\ buffer = <<>>
  /\ fill = 0
  /\ use = 0
  /\ count = 0
  /\ producer_done = 0
  /\ mutex = "free"
  /\ cond = <<>>
  /\ ppc = <<>>
  /\ input = <<>>
  /\ value = 0
  /\ output = <<>>
  /\ logged = <<>>
  /\ produced = <<>>

\* The allocator's own state together with the memory it lives in.
avars == <<mem, dirty, maps, free_list, heap_start, heap_end>>

-----------------------------------------------------------------------------
(* Program constants *)

ALIGNMENT == 16
MAGIC == 1234567
MMAP_THRESHOLD == 8192
HEAP_EXPANSION_SIZE == 16384
\* sizeof(block_header_t)
HDR == 32
\* getpagesize()
PAGE == 4096
NULL == 0

\* size_t and pointers are unsigned and wrap; the width is reduced from 64 to
\* 30 bits so that every sum and the products used stay inside TLC's integers.
SizeMod == 2^30

\* Field offsets inside block_header_t.
OFF_size == 0
OFF_is_free == 8
OFF_is_mmap == 12
OFF_next == 16
OFF_magic == 24

-----------------------------------------------------------------------------
(* Bounds of the model *)

\* Pages 1..NPages of the address space can be mapped (page 0 holds NULL).
NPages == 8
\* Calls made by the caller in one run.
MaxOps == 3
\* Times the caller fills one of its blocks with data in one run.
MaxWrites == 1
\* Blocks allocated before every other one is released.
MaxBlocks == 3

\* The requests the caller makes: sizes for my_malloc, <<nelem, size>> for
\* my_calloc.
Sizes == {0, 40, 8176, 8192}
CallocArgs == {<<5, 8>>, <<32769, 32768>>}
\* Sizes S of the two neighbouring blocks that are released and coalesced.
CoalesceSizes == {40, 4064, 4080}

-----------------------------------------------------------------------------
(* Memory *)

ZeroCell == [q |-> 0, a |-> 0, b |-> 0]
\* A granule filled with the caller's pattern byte 0xFF.
PatCell == [q |-> SizeMod - 1, a |-> -1, b |-> -1]

Gran(a) == a - (a % ALIGNMENT)

\* The machine state the C functions work on.
Cur == [mem |-> mem, dirty |-> dirty, maps |-> maps, free_list |-> free_list,
        heap_start |-> heap_start, heap_end |-> heap_end, st |-> st,
        diag |-> "none", nmap |-> 0, nunmap |-> 0, oscalls |-> 0, osbad |-> FALSE,
        req |-> <<>>]

IsMapped(s, a) == \E m \in s.maps : m.base <= a /\ a < m.base + m.len

RangeMapped(s, lo, hi) ==
  \A p \in (lo \div PAGE)..((hi - 1) \div PAGE) : IsMapped(s, p * PAGE)

InDirty(s, g) == \E d \in s.dirty : d[1] <= g /\ g < d[2]

\* The content of granule g: what was last stored there.
CellAt(s, g) ==
  IF g \in DOMAIN s.mem THEN s.mem[g]
  ELSE IF InDirty(s, g) THEN PatCell ELSE ZeroCell

SetCell(m, g, c) == [x \in DOMAIN m \cup {g} |-> IF x = g THEN c ELSE m[x]]

\* Reading the field at offset off of the header at h.
Rd(s, h, off) ==
  LET c0 == CellAt(s, Gran(h))
      c1 == CellAt(s, Gran(h) + 16)
  IN CASE off = OFF_size -> c0.q
       [] off = OFF_is_free -> c0.a
       [] off = OFF_is_mmap -> c0.b
       [] off = OFF_next -> c1.q
       [] off = OFF_magic -> c1.a

\* Whether the field can be accessed without a fault.
CanRd(s, h, off) == IsMapped(s, (h + off) % SizeMod)

Segv(s) == [s EXCEPT !.st = "segv"]
Hang(s) == [s EXCEPT !.st = "hang"]

\* Writing a field: a store to an unmapped address kills the process.
Wr(s, h, off, v) ==
  IF s.st # "ok" THEN s
  ELSE IF ~CanRd(s, h, off) THEN Segv(s)
  ELSE LET g == IF off >= 16 THEN Gran(h) + 16 ELSE Gran(h)
           c == CellAt(s, g)
           c2 == CASE off = OFF_size -> [c EXCEPT !.q = v]
                   [] off = OFF_is_free -> [c EXCEPT !.a = v]
                   [] off = OFF_is_mmap -> [c EXCEPT !.b = v]
                   [] off = OFF_next -> [c EXCEPT !.q = v]
                   [] off = OFF_magic -> [c EXCEPT !.a = v]
       IN [s EXCEPT !.mem = SetCell(s.mem, g, c2)]

\* The intervals of ds outside [lo, hi).
CutIntervals(ds, lo, hi) ==
  {d \in ds : d[2] <= lo \/ d[1] >= hi}
  \cup {<<d[1], lo>> : d \in {e \in ds : e[1] < lo /\ e[2] > lo}}
  \cup {<<hi, d[2]>> : d \in {e \in ds : e[1] < hi /\ e[2] > hi}}

CutCells(m, lo, hi) == [g \in {x \in DOMAIN m : x < lo \/ x >= hi} |-> m[g]]

Pow256(k) == IF k = 0 THEN 1 ELSE IF k = 1 THEN 256 ELSE IF k = 2 THEN 65536 ELSE 16777216

\* A cell with its first r bytes (0 < r < 16) set to zero (little endian).
ZeroLow(c, r) ==
  [q |-> IF r >= 4 THEN 0 ELSE c.q - (c.q % Pow256(r)),
   a |-> IF r <= 8 THEN c.a ELSE IF r >= 12 THEN 0 ELSE c.a - (c.a % Pow256(r - 8)),
   b |-> IF r <= 12 THEN c.b ELSE c.b - (c.b % Pow256(r - 12))]

\* memset(ptr, 0, n)
memset0(s, ptr, n) ==
  IF s.st # "ok" \/ n = 0 THEN s
  ELSE IF ~RangeMapped(s, ptr, ptr + n) THEN Segv(s)
  ELSE LET full == ptr + n - (n % ALIGNMENT)
           r == n % ALIGNMENT
           m1 == CutCells(s.mem, ptr, full + (IF r = 0 THEN 0 ELSE ALIGNMENT))
           m2 == IF r = 0 THEN m1 ELSE SetCell(m1, full, ZeroLow(CellAt(s, full), r))
       IN [s EXCEPT !.mem = m2,
                    !.dirty = CutIntervals(s.dirty, ptr, full + (IF r = 0 THEN 0 ELSE ALIGNMENT))]

\* Whether the n bytes at ptr all read as zero.
ReadsZero(s, ptr, n) ==
  LET full == ptr + n - (n % ALIGNMENT)
      r == n % ALIGNMENT
  IN /\ \A g \in DOMAIN s.mem : (ptr <= g /\ g < full) => s.mem[g] = ZeroCell
     /\ \A d \in s.dirty : d[2] <= ptr \/ d[1] >= full
     /\ r # 0 => ZeroLow(CellAt(s, full), r) = CellAt(s, full)

-----------------------------------------------------------------------------
(* The operating system *)

\* Removing the pages of [lo, hi) from the mappings (munmap splits a mapping
\* it only partly covers).
UnmapRange(ms, lo, hi) ==
  {m \in ms : m.base + m.len <= lo \/ m.base >= hi}
  \cup {[m EXCEPT !.len = lo - m.base] : m \in {e \in ms : e.base < lo /\ e.base + e.len > lo}}
  \cup {[m EXCEPT !.base = hi, !.len = m.base + m.len - hi] :
          m \in {e \in ms : e.base < hi /\ e.base + e.len > hi}}

\* Whether the len bytes (a page multiple) from page pg on are free pages of
\* the address space.
CanPlace(s, pg, len) ==
  /\ len > 0
  /\ pg >= 1
  /\ pg + (len \div PAGE) - 1 <= NPages
  /\ \A p \in pg..(pg + (len \div PAGE) - 1) : ~IsMapped(s, p * PAGE)

\* Where the OS puts a new mapping: in the lowest or in the highest free
\* range that fits (the bottom-up and the top-down layout of the kernel).
Placements(s, len) ==
  {pg \in 1..NPages :
     /\ CanPlace(s, pg, len)
     /\ \/ \A q \in 1..(pg - 1) : ~CanPlace(s, q, len)
        \/ \A q \in (pg + 1)..NPages : ~CanPlace(s, q, len)}

\* mmap(NULL, len, PROT_READ|PROT_WRITE, MAP_PRIVATE|MAP_ANONYMOUS, -1, 0).
\* os = 0: the call fails (MAP_FAILED, v = NULL here); os = pg: the fresh,
\* zero-filled mapping starts at page pg.  osbad marks a choice the OS
\* cannot make; req lists the lengths asked for.
mmap(s, len, os, kind) ==
  IF os = 0 \/ len = 0
  THEN [s |-> [s EXCEPT !.oscalls = @ + 1, !.osbad = @ \/ os # 0,
                        !.req = Append(@, <<kind, len>>)],
        v |-> NULL]
  ELSE IF os \notin Placements(s, len)
  THEN [s |-> [s EXCEPT !.oscalls = @ + 1, !.osbad = TRUE,
                        !.req = Append(@, <<kind, len>>)],
        v |-> NULL]
  ELSE [s |-> [s EXCEPT !.maps = @ \cup {[base |-> os * PAGE, len |-> len, kind |-> kind]},
                        !.nmap = @ + 1, !.oscalls = @ + 1,
                        !.req = Append(@, <<kind, len>>)],
        v |-> os * PAGE]

\* munmap(addr, len): fails with EINVAL for an unaligned addr or len = 0,
\* and when the OS refuses (os = 1); otherwise (os = 0) the pages are gone,
\* with their content.
munmap(s, addr, len, os) ==
  IF addr % PAGE # 0 \/ len = 0 \/ addr + len > SizeMod \/ os = 1
  THEN [s |-> [s EXCEPT !.oscalls = @ + 1, !.osbad = @ \/ os > 1], v |-> -1]
  ELSE LET hi == (((addr + len + PAGE - 1) \div PAGE) * PAGE)
       IN [s |-> [s EXCEPT !.maps = UnmapRange(@, addr, hi),
                           !.mem = CutCells(@, addr, hi),
                           !.dirty = CutIntervals(@, addr, hi),
                           !.nunmap = @ + 1, !.oscalls = @ + 1, !.osbad = @ \/ os > 1],
           v |-> 0]

-----------------------------------------------------------------------------
(* Size Normalizer *)

\* align_size that leaves the size as it is.
align_size_none(size) == size % SizeMod

align_size(size) ==
  LET t == (size + ALIGNMENT - 1) % SizeMod
  IN t - (t % ALIGNMENT)

align_to_page(size) ==
  ((((size + PAGE - 1) % SizeMod) \div PAGE) * PAGE) % SizeMod

-----------------------------------------------------------------------------
(* Header access helpers *)

\* What a list walk yields besides an address: the walk touched unmapped
\* memory, or runs round a cycle for ever.
FAULT == -1
LOOP == -2

\* A walk's outcome as a machine state.
Stopped(s, v) == IF v = FAULT THEN Segv(s) ELSE IF v = LOOP THEN Hang(s) ELSE s

\* dst->doff = src->soff
Copy(s, dst, doff, src, soff) ==
  IF s.st # "ok" THEN s
  ELSE IF ~CanRd(s, src, soff) THEN Segv(s)
  ELSE Wr(s, dst, doff, Rd(s, src, soff))

\* p->size += sizeof(block_header_t) + q->size
Grow(s, p, q) ==
  IF s.st # "ok" THEN s
  ELSE IF ~CanRd(s, p, OFF_size) \/ ~CanRd(s, q, OFF_size) THEN Segv(s)
  ELSE Wr(s, p, OFF_size, (Rd(s, p, OFF_size) + HDR + Rd(s, q, OFF_size)) % SizeMod)

\* The five stores that initialise a header, in the order of the source.
InitHeader(s, h, size, is_free, is_mmap) ==
  Wr(Wr(Wr(Wr(Wr(s, h, OFF_size, size), h, OFF_is_free, is_free),
              h, OFF_is_mmap, is_mmap), h, OFF_next, NULL), h, OFF_magic, MAGIC)

-----------------------------------------------------------------------------
(* Block Registry *)

RECURSIVE WalkToTail(_, _, _)
\* The node of the list from current whose next is NULL.
WalkToTail(s, current, seen) ==
  IF ~CanRd(s, current, OFF_next) THEN FAULT
  ELSE IF current \in seen THEN LOOP
  ELSE IF Rd(s, current, OFF_next) = NULL THEN current
  ELSE WalkToTail(s, Rd(s, current, OFF_next), seen \cup {current})

\* current->next = block, for the tail the walk found.
LinkTail(s, tail, block) ==
  IF tail < 0 THEN Stopped(s, tail) ELSE Wr(s, tail, OFF_next, block)

AppendLinked(s, block) ==
  IF s.st # "ok" THEN s
  ELSE IF s.free_list = NULL THEN [s EXCEPT !.free_list = block]
  ELSE LinkTail(s, WalkToTail(s, s.free_list, {}), block)

append_block_to_free_list(s, block) ==
  AppendLinked(Wr(s, block, OFF_next, NULL), block)

RECURSIVE WalkToPrev(_, _, _, _)
WalkToPrev(s, current, block, seen) ==
  IF current = NULL THEN NULL
  ELSE IF ~CanRd(s, current, OFF_next) THEN FAULT
  ELSE IF Rd(s, current, OFF_next) = block THEN current
  ELSE IF current \in seen THEN LOOP
  ELSE WalkToPrev(s, Rd(s, current, OFF_next), block, seen \cup {current})

find_prev_block(s, block) == WalkToPrev(s, s.free_list, block, {})

RECURSIVE WalkFit(_, _, _, _)
WalkFit(s, current, size, seen) ==
  IF current = NULL THEN NULL
  ELSE IF ~CanRd(s, current, OFF_is_free) THEN FAULT
  ELSE IF Rd(s, current, OFF_is_free) # 0 /\ Rd(s, current, OFF_size) >= size
       THEN current
  ELSE IF ~CanRd(s, current, OFF_next) THEN FAULT
  ELSE IF current \in seen THEN LOOP
  ELSE WalkFit(s, Rd(s, current, OFF_next), size, seen \cup {current})

RECURSIVE WalkFitStrict(_, _, _, _)
\* find_free_block that passes over a free block of exactly the size asked.
WalkFitStrict(s, current, size, seen) ==
  IF current = NULL THEN NULL
  ELSE IF ~CanRd(s, current, OFF_is_free) THEN FAULT
  ELSE IF Rd(s, current, OFF_is_free) # 0 /\ Rd(s, current, OFF_size) > size
       THEN current
  ELSE IF ~CanRd(s, current, OFF_next) THEN FAULT
  ELSE IF current \in seen THEN LOOP
  ELSE WalkFitStrict(s, Rd(s, current, OFF_next), size, seen \cup {current})

find_free_block_strict(s, size) == WalkFitStrict(s, s.free_list, size, {})

find_free_block(s, size) == WalkFit(s, s.free_list, size, {})

-----------------------------------------------------------------------------
(* Split and coalesce *)

\* The stores of split_block once the block is known to be large enough.
SplitAt(s, block, size, new_block) ==
  Wr(Wr(Wr(Copy(Wr(Wr(Wr(s, new_block, OFF_size,
                         (Rd(s, block, OFF_size) - size - HDR) % SizeMod),
                      new_block, OFF_is_free, 1),
                   new_block, OFF_is_mmap, 0),
                new_block, OFF_next, block, OFF_next),
           new_block, OFF_magic, MAGIC),
        block, OFF_size, size),
     block, OFF_next, new_block)

\* split_block with a minimum block size of one header.
split_block_header_only(s, block, size) ==
  IF s.st # "ok" THEN s
  ELSE IF ~CanRd(s, block, OFF_size) THEN Segv(s)
  ELSE IF Rd(s, block, OFF_size) >= (size + HDR) % SizeMod
  THEN SplitAt(s, block, size, (block + HDR + size) % SizeMod)
  ELSE s

split_block(s, block, size) ==
  IF s.st # "ok" THEN s
  ELSE IF ~CanRd(s, block, OFF_size) THEN Segv(s)
  ELSE IF Rd(s, block, OFF_size) >= (size + HDR + ALIGNMENT) % SizeMod
  THEN SplitAt(s, block, size, (block + HDR + size) % SizeMod)
  ELSE s

\* block absorbs nx: block->size += ...; block->next = block->next->next.
Absorb(s, block, nx) ==
  Copy(Grow(s, block, nx), block, OFF_next, nx, OFF_next)

MergeNext(s, block, nx) ==
  IF nx = NULL THEN s
  ELSE IF ~CanRd(s, nx, OFF_is_free) THEN Segv(s)
  ELSE IF Rd(s, nx, OFF_is_free) = 0 THEN s
  ELSE Absorb(s, block, nx)

merge_with_next_block(s, block) ==
  IF s.st # "ok" THEN s
  ELSE IF ~CanRd(s, block, OFF_next) THEN Segv(s)
  ELSE MergeNext(s, block, Rd(s, block, OFF_next))

MergePrev(s, block, prev) ==
  IF prev < 0 THEN Stopped(s, prev)
  ELSE IF prev = NULL THEN s
  ELSE IF ~CanRd(s, prev, OFF_is_free) THEN Segv(s)
  ELSE IF Rd(s, prev, OFF_is_free) = 0 THEN s
  ELSE Copy(Grow(s, prev, block), prev, OFF_next, block, OFF_next)

\* (The caller's reference is moved to prev after a merge; my_free does not
\* use it again.)
merge_with_prev_block(s, block) ==
  IF s.st # "ok" THEN s
  ELSE MergePrev(s, block, find_prev_block(s, block))

\* merge_adjacent_free_blocks without the pass over the predecessor.
merge_next_only(s, block) == merge_with_next_block(s, block)

merge_adjacent_free_blocks(s, block) ==
  merge_with_prev_block(merge_with_next_block(s, block), block)

-----------------------------------------------------------------------------
(* Arena Manager *)

\* The remainder registered with the cursor left where the carve put it.
CarveRemainingKeepCursor(s, remaining_block) ==
  IF s.st # "ok" THEN s
  ELSE append_block_to_free_list(
         InitHeader(s, remaining_block,
                    (s.heap_end - s.heap_start - HDR) % SizeMod, 1, 0),
         remaining_block)

\* The free block made of what the region has left, registered first.
CarveRemaining(s, remaining_block) ==
  IF s.st # "ok" THEN s
  ELSE append_block_to_free_list(
         [InitHeader(s, remaining_block,
                     (s.heap_end - s.heap_start - HDR) % SizeMod, 1, 0)
            EXCEPT !.heap_start = s.heap_end],
         remaining_block)

CarveRest(s, block) ==
  IF s.st # "ok" THEN s
  ELSE IF (s.heap_end - s.heap_start) % SizeMod > HDR
  THEN append_block_to_free_list(CarveRemaining(s, s.heap_start), block)
  ELSE append_block_to_free_list(s, block)

\* Lines 146-177: the block at the cursor, the cursor moved past it.
Carve(s, total_size) ==
  [s |-> CarveRest(InitHeader([s EXCEPT !.heap_start = (@ + total_size) % SizeMod],
                              s.heap_start, (total_size - HDR) % SizeMod, 0, 0),
                   s.heap_start),
   v |-> s.heap_start]

\* request_new_heap_block without the test of mmap's result.
CarveMappedUnchecked(m, total_size) ==
  Carve([m.s EXCEPT !.heap_start = m.v,
                    !.heap_end = (m.v + HEAP_EXPANSION_SIZE) % SizeMod],
        total_size)

CarveMapped(m, total_size) ==
  IF m.v = NULL THEN [s |-> m.s, v |-> NULL]
  ELSE Carve([m.s EXCEPT !.heap_start = m.v,
                         !.heap_end = (m.v + HEAP_EXPANSION_SIZE) % SizeMod],
             total_size)

Expand(s, total_size, os) ==
  IF s.heap_start = NULL \/ (s.heap_end - s.heap_start) % SizeMod < total_size
  THEN CarveMapped(mmap(s, HEAP_EXPANSION_SIZE, os, "arena"), total_size)
  ELSE Carve(s, total_size)

request_new_heap_block(s, size, os) ==
  Expand(s, align_to_page((size + HDR) % SizeMod), os)

MmapBlock(m, total_size) ==
  IF m.v = NULL THEN [s |-> m.s, v |-> NULL]
  ELSE [s |-> InitHeader(m.s, m.v, (total_size - HDR) % SizeMod, 0, 1), v |-> m.v]

MmapTotal(s, total_size, os) == MmapBlock(mmap(s, total_size, os, "mmap"), total_size)

request_new_mmap_block(s, size, os) ==
  MmapTotal(s, align_to_page((size + HDR) % SizeMod), os)

-----------------------------------------------------------------------------
(* Allocation Engine *)

\* return (void*)(block + 1), or NULL when the request for a block failed.
PayloadOf(r) ==
  IF r.v = NULL THEN r ELSE [s |-> r.s, v |-> (r.v + HDR) % SizeMod]

MallocFound(s, aligned_size, os, block) ==
  IF block < 0 THEN [s |-> Stopped(s, block), v |-> NULL]
  ELSE IF block # NULL
  THEN [s |-> Wr(Wr(split_block(s, block, aligned_size), block, OFF_is_free, 0),
                 block, OFF_magic, MAGIC),
        v |-> (block + HDR) % SizeMod]
  ELSE PayloadOf(request_new_heap_block(s, aligned_size, os))

\* my_malloc that maps only requests above the threshold.
MallocAlignedAbove(s, aligned_size, os) ==
  IF aligned_size > MMAP_THRESHOLD
  THEN PayloadOf(request_new_mmap_block(s, aligned_size, os))
  ELSE MallocFound(s, aligned_size, os, find_free_block(s, aligned_size))

MallocAligned(s, aligned_size, os) ==
  IF aligned_size >= MMAP_THRESHOLD
  THEN PayloadOf(request_new_mmap_block(s, aligned_size, os))
  ELSE MallocFound(s, aligned_size, os, find_free_block(s, aligned_size))

\* my_malloc without the test of size against 0.
my_malloc_unchecked(s, size, os) == MallocAligned(s, align_size(size), os)

\* The result's v is the pointer returned (meaningful when s.st = "ok").
my_malloc(s, size, os) ==
  IF size = 0 THEN [s |-> s, v |-> NULL]
  ELSE MallocAligned(s, align_size(size), os)

\* my_calloc without the memset.
CallocNoFill(r, total_size) == r

CallocFill(r, total_size) ==
  IF r.s.st = "ok" /\ r.v # NULL
  THEN [s |-> memset0(r.s, r.v, total_size), v |-> r.v]
  ELSE r

CallocTotal(s, nelem, size, total_size, os) ==
  IF size # 0 /\ total_size \div size # nelem THEN [s |-> s, v |-> NULL]
  ELSE CallocFill(my_malloc(s, total_size, os), total_size)

my_calloc(s, nelem, size, os) ==
  CallocTotal(s, nelem, size, (nelem * size) % SizeMod, os)

-----------------------------------------------------------------------------
(* Deallocation Engine *)

\* my_free that does not look at munmap's result.
UnmappedSilent(u) == u.s

Unmapped(u) == IF u.v = -1 THEN [u.s EXCEPT !.diag = "MappingError"] ELSE u.s

\* my_free without the test of the magic number.
FreeBlockUnchecked(s, block, os) ==
  IF ~CanRd(s, block, OFF_is_mmap) THEN Segv(s)
  ELSE IF Rd(s, block, OFF_is_mmap) # 0
  THEN IF ~CanRd(s, block, OFF_size) THEN Segv(s)
       ELSE Unmapped(munmap(s, block, (Rd(s, block, OFF_size) + HDR) % SizeMod, os))
  ELSE merge_adjacent_free_blocks(
         Wr(Wr(s, block, OFF_is_free, 1), block, OFF_magic, 0), block)

FreeBlock(s, block, os) ==
  IF ~CanRd(s, block, OFF_magic) THEN Segv(s)
  ELSE IF Rd(s, block, OFF_magic) # MAGIC THEN [s EXCEPT !.diag = "InvalidFree"]
  ELSE IF ~CanRd(s, block, OFF_is_mmap) THEN Segv(s)
  ELSE IF Rd(s, block, OFF_is_mmap) # 0
  THEN IF ~CanRd(s, block, OFF_size) THEN Segv(s)
       ELSE Unmapped(munmap(s, block, (Rd(s, block, OFF_size) + HDR) % SizeMod, os))
  ELSE merge_adjacent_free_blocks(
         Wr(Wr(s, block, OFF_is_free, 1), block, OFF_magic, 0), block)

\* my_free without the test of ptr against NULL.
my_free_unguarded(s, ptr, os) == FreeBlock(s, (ptr - HDR) % SizeMod, os)

my_free(s, ptr, os) ==
  IF ptr = NULL THEN s ELSE FreeBlock(s, (ptr - HDR) % SizeMod, os)

-----------------------------------------------------------------------------
(* What can be seen of the allocator from outside *)

RECURSIVE RegistryFrom(_, _, _)
\* The blocks linked from current in list order, as far as they can be read.
RegistryFrom(s, current, seen) ==
  IF current = NULL \/ current \in seen \/ ~CanRd(s, current, OFF_size)
     \/ ~CanRd(s, current, OFF_next)
  THEN <<>>
  ELSE <<current>> \o RegistryFrom(s, Rd(s, current, OFF_next), seen \cup {current})

\* The Block Registry: the list that starts at free_list.
Registry(s) == RegistryFrom(s, s.free_list, {})

RegistrySet(s) == {Registry(s)[i] : i \in 1..Len(Registry(s))}

Header(s, h) ==
  [at |-> h, size |-> Rd(s, h, OFF_size), is_free |-> Rd(s, h, OFF_is_free),
   is_mmap |-> Rd(s, h, OFF_is_mmap), next |-> Rd(s, h, OFF_next),
   magic |-> Rd(s, h, OFF_magic)]

\* The header at h lies in mapped memory.
Readable(s, h) == CanRd(s, h, OFF_size) /\ CanRd(s, h, OFF_next)

NoHeader == [at |-> NULL, size |-> 0, is_free |-> 0, is_mmap |-> 0, next |-> NULL,
             magic |-> 0]

\* Registry links, sizes, flags and tags, and the arena cursor.
HeadersOf(s, reg) == [i \in 1..Len(reg) |-> Header(s, reg[i])]

RegSnap(s) == <<s.free_list, s.heap_start, s.heap_end, HeadersOf(s, Registry(s))>>

\* Memory, mappings and allocator globals.
FullSnap(s) == <<s.mem, s.dirty, s.maps, s.free_list, s.heap_start, s.heap_end>>

\* The payload capacity of the block of pointer ptr.
Capacity(s, ptr) ==
  IF ptr # NULL /\ CanRd(s, (ptr - HDR) % SizeMod, OFF_size)
  THEN Rd(s, (ptr - HDR) % SizeMod, OFF_size) ELSE 0

\* Whether some free registry block could hold n bytes.
HasFit(s, n) ==
  \E h \in RegistrySet(s) : Rd(s, h, OFF_is_free) # 0 /\ Rd(s, h, OFF_size) >= n

-----------------------------------------------------------------------------
(* The caller: calls of the three entry points, and stores into its blocks *)

Commit(s) ==
  /\ mem' = s.mem
  /\ dirty' = s.dirty
  /\ maps' = s.maps
  /\ free_list' = s.free_list
  /\ heap_start' = s.heap_start
  /\ heap_end' = s.heap_end
  /\ st' = s.st

\* The block find_free_block yields for a request of n bytes that my_malloc
\* serves from the registry (NULL for any other call).
Fit(op, n, pre) ==
  IF op # "free" /\ n > 0 /\ align_size(n) < MMAP_THRESHOLD
  THEN find_free_block(pre, align_size(n)) ELSE NULL

\* Where split_block puts the remainder of block for a request of n bytes.
RemainderAt(block, n) == (block + HDR + align_size(n)) % SizeMod

\* What a call did, as the caller and the OS saw it: the call (op, a, b), the
\* pointer returned, how it ended (st, diag), the OS calls made, and what the
\* state before (pre) and after (s) the call shows about the block returned.
\* n is the number of bytes asked for; held tells that a released pointer was
\* null or one the caller held; hdr and head are the header my_free recovers
\* from the pointer, when it lies in mapped memory, head1 what the call made
\* of it; fit is the block the
\* first-fit scan found (req the mappings asked of the OS), blk0 and blk1 its header before and after the call,
\* rem1 the header at the place of its remainder after the call.
Entry(op, a, b, n, ret, os, pre, s) ==
  [op |-> op, a |-> a, b |-> b, n |-> n, ret |-> ret, st |-> s.st, diag |-> s.diag,
   os |-> os, asked |-> s.oscalls > 0, nmap |-> s.nmap, nunmap |-> s.nunmap,
   same |-> FullSnap(s) = FullSnap(pre),
   reg0 |-> RegSnap(pre),
   reg1 |-> RegSnap(s),
   held |-> op # "free" \/ a = NULL \/ a \in DOMAIN live,
   hdr |-> op = "free" /\ a # NULL /\ Readable(pre, (a - HDR) % SizeMod),
   head |-> IF op = "free" /\ a # NULL /\ Readable(pre, (a - HDR) % SizeMod)
            THEN Header(pre, (a - HDR) % SizeMod) ELSE NoHeader,
   head1 |-> IF op = "free" /\ a # NULL /\ Readable(pre, (a - HDR) % SizeMod)
             THEN Header(s, (a - HDR) % SizeMod) ELSE NoHeader,
   maps0 |-> pre.maps,
   maps1 |-> s.maps,
   cap |-> Capacity(s, ret),
   inmap |-> ret # NULL /\ RangeMapped(s, ret, ret + Capacity(s, ret)),
   hadfit |-> op # "free" /\ HasFit(pre, align_size(n)),
   zero |-> ret # NULL /\ ReadsZero(s, ret, n),
   prezero |-> ret # NULL /\ ReadsZero(pre, ret, n),
   req |-> s.req,
   fit |-> Fit(op, n, pre),
   blk0 |-> IF Fit(op, n, pre) > 0 THEN Header(pre, Fit(op, n, pre)) ELSE NoHeader,
   blk1 |-> IF Fit(op, n, pre) > 0 THEN Header(s, Fit(op, n, pre)) ELSE NoHeader,
   rem1 |-> IF Fit(op, n, pre) > 0 THEN Header(s, RemainderAt(Fit(op, n, pre), n))
            ELSE NoHeader]

\* The OS choice is one the OS can make, and is 0 when the OS is not asked.
OsOk(s, os) == ~s.osbad /\ (s.oscalls = 0 => os = 0)

\* The pointers the caller holds after a call that returned p for n bytes,
\* each with the bytes it was promised there (the most, if p was returned
\* while the caller still held it).
Returned(p, n) ==
  /\ live' = IF p = NULL THEN live
             ELSE [x \in DOMAIN live \cup {p} |->
                     IF x # p THEN live[x]
                     ELSE IF p \in DOMAIN live /\ live[p] > n THEN live[p] ELSE n]
  /\ dead' = dead \ {p}

AllocStep(op, a, b, n, os, r) ==
  /\ OsOk(r.s, os)
  /\ Commit(r.s)
  /\ Returned(IF r.s.st = "ok" THEN r.v ELSE NULL, n)
  /\ hist' = Append(hist, Entry(op, a, b, n, IF r.s.st = "ok" THEN r.v ELSE NULL,
                                os, Cur, r.s))
  /\ UNCHANGED <<nwrites, script>>

DoMalloc(size, os) ==
  /\ st = "ok"
  /\ AllocStep("malloc", size, 0, size, os, my_malloc(Cur, size, os))

DoCalloc(nelem, size, os) ==
  /\ st = "ok"
  /\ AllocStep("calloc", nelem, size, (nelem * size) % SizeMod, os,
               my_calloc(Cur, nelem, size, os))

FreeStep(ptr, os, s) ==
  /\ OsOk(s, os)
  /\ Commit(s)
  /\ live' = [x \in DOMAIN live \ {ptr} |-> live[x]]
  /\ dead' = IF ptr = NULL THEN dead ELSE dead \cup {ptr}
  /\ hist' = Append(hist, Entry("free", ptr, 0, 0, NULL, os, Cur, s))
  /\ UNCHANGED <<nwrites, script>>

DoFree(ptr, os) ==
  /\ st = "ok"
  /\ FreeStep(ptr, os, my_free(Cur, ptr, os))

\* The caller fills the first n bytes of its block with 0xFF.
Fill(ptr, n) ==
  IF RangeMapped(Cur, ptr, ptr + n)
  THEN /\ mem' = CutCells(mem, ptr, ptr + n)
       /\ dirty' = CutIntervals(dirty, ptr, ptr + n) \cup {<<ptr, ptr + n>>}
       /\ st' = "ok"
  ELSE /\ st' = "segv"
       /\ UNCHANGED <<mem, dirty>>

\* The caller writes the whole granules of the bytes it asked for.
DoWrite(ptr) ==
  /\ st = "ok"
  /\ ptr \in DOMAIN live
  /\ live[ptr] >= ALIGNMENT
  /\ Fill(ptr, live[ptr] - (live[ptr] % ALIGNMENT))
  /\ nwrites' = nwrites + 1
  /\ UNCHANGED <<maps, free_list, heap_start, heap_end, live, dead, hist, script>>

-----------------------------------------------------------------------------
(* The caller's programs.  A command is <<op, a, b>>: <<"malloc", size, 0>>, *)
(* <<"calloc", nelem, size>>, <<"free", k, off>> and <<"write", k, 0>>,     *)
(* where k names the pointer returned by the k-th call (0: the null pointer) *)
(* and off is added to it.                                                   *)

m(size) == <<"malloc", size, 0>>
c(nelem, size) == <<"calloc", nelem, size>>
f(k) == <<"free", k, 0>>
fo(k, off) == <<"free", k, off>>
w(k) == <<"write", k, 0>>

RECURSIVE Repeat(_, _)
Repeat(cmd, n) == IF n = 0 THEN <<>> ELSE <<cmd>> \o Repeat(cmd, n - 1)

RECURSIVE FreeEveryOther(_, _)
\* release the calls first, first + 2, ... up to n
FreeEveryOther(first, n) ==
  IF first > n THEN <<>> ELSE <<f(first)>> \o FreeEveryOther(first + 2, n)

\* Allocate n blocks of size S, release every other one, allocate size s.
ReuseScript(n, S, first, s) == Repeat(m(S), n) \o FreeEveryOther(first, n) \o <<m(s)>>

\* Allocate two blocks of size S, release both, allocate 2 * S.
CoalesceScript(S, order) == <<m(S), m(S), f(order[1]), f(order[2]), m(2 * S)>>

\* Allocate 32, 64, 128, release the 64-byte block, allocate 50.
FirstFitScript == <<m(32), m(64), m(128), f(2), m(50)>>

\* Allocate twice, dirty and release the second block, allocate_zeroed twice:
\* 5 * 8 bytes, and a product that overflows.
ZeroedScript == <<m(40), m(40), w(2), f(2), c(5, 8), c(32769, 32768)>>

\* Allocate S, release it twice, allocate S again.
DoubleFreeScript(S) == <<m(S), f(1), f(1), m(S)>>

\* A released first block, then requests served from what the release left.
AfterReleaseScript(large, tail) ==
  <<m(40), f(1)>> \o large \o <<m(8176)>> \o tail

\* The payload of a later block lies over the header of a dedicated mapping
\* (call 3); the caller fills that payload and releases the mapping.
OverwriteScript == <<m(40), f(1), m(8192), m(8176), m(8144), w(5), f(3)>>

\* A registry header comes to lie in the payload of the dedicated mapping,
\* which the caller then fills.
RegistryOverwriteScript == <<m(40), f(1), m(8192), m(8176), m(4048), m(40), w(3)>>

\* A registry header is written over the header of the dedicated mapping,
\* which the caller then releases.
MappedReleaseScript == <<m(40), f(1), m(8192), m(8176), m(4048), f(3)>>

\* Release of a pointer into the middle of a block the caller filled.
InteriorFreeScript == <<m(64), w(1), fo(1, 32), m(40)>>

\* Requests that find a free block 0, 16, 32 or 48 bytes larger than asked:
\* the remainder of the first carve has 4064 bytes.
ExcessScript(x) == <<m(8176), m(4064 - x)>>

\* A request at, just below or far above the large-object threshold, made
\* when the registry holds a free block, and the release of its block.
ThresholdScript(size) == <<m(40), m(size), f(2)>>

\* Requests around the threshold, and the largest the size type can hold.
ThresholdSizes ==
  {8160, 8161, 8176, 8177, 8191, 8192, 8193,
   SizeMod - PAGE, SizeMod - 2048, SizeMod - 16, SizeMod - 15, SizeMod - 1}

\* A split that leaves a remainder of 16 bytes (an excess of 48), the release
\* of the block split off, which takes the remainder back, and a request 32
\* bytes smaller than the block released.
SplitRuleScript == <<m(40), m(4016), m(8160), f(3), m(8176)>>

\* After a release, requests served by splitting what the release left,
\* with a second arena obtained in between.
SplitOverScript == <<m(40), f(1), m(8176), m(8176), m(4048)>>

\* A release that takes back the remainder behind the block, then two
\* requests of sizes that are no multiples of 16, served by splits.
AlignedScript == <<m(40), m(40), f(2), m(40), m(24)>>

\* The first carved block is released when its registry predecessor is in
\* use, split, and the next request misses: the arena grows while the last
\* registry block is free.
FreeTailScript == <<m(8176), m(4064), f(1), m(8176), m(8176)>>

\* The same requests, and the release of the block whose header the last
\* split wrote over.
ReleaseOverScript == SplitOverScript \o <<f(4)>>

\* The same requests, and one more that no free block can hold.
NoFitScript == SplitOverScript \o <<m(4080)>>

Scripts ==
  {ReuseScript(n, 40, first, s) : n \in 2..MaxBlocks, first \in {1, 2}, s \in {24, 40}}
  \cup {CoalesceScript(S, order) : S \in CoalesceSizes, order \in {<<1, 2>>, <<2, 1>>}}
  \cup {FirstFitScript, ZeroedScript}
  \cup {OverwriteScript, RegistryOverwriteScript, MappedReleaseScript,
        InteriorFreeScript, SplitOverScript, SplitRuleScript,
        NoFitScript, ReleaseOverScript, FreeTailScript, AlignedScript}
  \cup {ExcessScript(x) : x \in {0, 16, 32, 48}}
  \cup {ThresholdScript(size) : size \in ThresholdSizes}
  \cup {DoubleFreeScript(S) : S \in {40, MMAP_THRESHOLD}}
  \cup {AfterReleaseScript(large, tail) :
          large \in {<<>>, <<m(MMAP_THRESHOLD)>>},
          tail \in {<<m(8144)>>, <<m(4048), m(40)>>}}

\* The position of the caller in its program.
At == Len(hist) + nwrites + 1

\* The caller may make the call now: the next command of its program, or,
\* without a program, any call while fewer than MaxOps were made.
MayCall(op, a, b) ==
  IF script = <<>> THEN Len(hist) < MaxOps
  ELSE At <= Len(script) /\ script[At] = <<op, a, b>>

MayWrite(ptr) ==
  IF script = <<>> THEN nwrites < MaxWrites
  ELSE /\ At <= Len(script)
       /\ script[At][1] = "write"
       /\ script[At][2] \in 1..Len(hist)
       /\ ptr = hist[script[At][2]].ret

\* The arguments the caller draws its calls from.
Args(op) ==
  IF script = <<>>
  THEN IF op = "malloc" THEN {<<size, 0>> : size \in Sizes} ELSE CallocArgs
  ELSE {<<script[i][2], script[i][3]>> : i \in {j \in 1..Len(script) : script[j][1] = op}}

\* The pointer named k, moved by off.
PtrOf(k, off) == IF k = 0 THEN NULL ELSE (hist[k].ret + off) % SizeMod

FreeArgs ==
  IF script = <<>> THEN {<<ptr, ptr, 0>> : ptr \in DOMAIN live \cup dead \cup {NULL}}
  ELSE {<<script[i][2], PtrOf(script[i][2], script[i][3]), script[i][3]>> :
          i \in {j \in 1..Len(script) : j = At /\ script[j][1] = "free"}}

-----------------------------------------------------------------------------
(* Specification *)

\* The state after construction: no mapping, the three globals NULL.
Init ==
  /\ mem = <<>>
  /\ dirty = {}
  /\ maps = {}
  /\ free_list = NULL
  /\ heap_start = NULL
  /\ heap_end = NULL
  /\ st = "ok"
  /\ live = <<>>
  /\ dead = {}
  /\ hist = <<>>
  /\ nwrites = 0
  /\ script \in Scripts \cup {<<>>}
  /\ RWIdle
  /\ PCIdle
  /\ MTIdle
  /\ TLBIdle

Malloc ==
  /\ \E x \in Args("malloc"), os \in 0..NPages :
       MayCall("malloc", x[1], 0) /\ DoMalloc(x[1], os)
  /\ UNCHANGED <<rwvars, pcvars, mtvars, tlbvars>>

Calloc ==
  /\ \E x \in Args("calloc"), os \in 0..NPages :
       MayCall("calloc", x[1], x[2]) /\ DoCalloc(x[1], x[2], os)
  /\ UNCHANGED <<rwvars, pcvars, mtvars, tlbvars>>

Free ==
  /\ \E x \in FreeArgs, os \in {0, 1} :
       MayCall("free", x[1], x[3]) /\ DoFree(x[2], os)
  /\ UNCHANGED <<rwvars, pcvars, mtvars, tlbvars>>

Write ==
  /\ \E ptr \in DOMAIN live : MayWrite(ptr) /\ DoWrite(ptr)
  /\ UNCHANGED <<rwvars, pcvars, mtvars, tlbvars>>

Next == Malloc \/ Calloc \/ Free \/ Write

Spec == Init /\ [][Next]_vars

-----------------------------------------------------------------------------
(* The reader-writer locks (Assignment-4/code/rwlock-reader-pref.c and      *)
(* rwlock-writer-pref.c).  Threads 1..NReaders run reader(), the next       *)
(* NWriters threads run writer(); pc[t] names the statement thread t is at. *)

\* Reader and writer threads started by main (argv[1], argv[2]).
NReaders == 2
NWriters == 2

Readers == 1..NReaders
Writers == (NReaders + 1)..(NReaders + NWriters)
Threads == Readers \cup Writers

\* The allocator is not in use.
MemIdle ==
  /\ mem = <<>>
  /\ dirty = {}
  /\ maps = {}
  /\ free_list = NULL
  /\ heap_start = NULL
  /\ heap_end = NULL
  /\ st = "ok"
  /\ live = <<>>
  /\ dead = {}
  /\ hist = <<>>
  /\ nwrites = 0
  /\ script = <<>>

\* The first statement of a thread: the writer-preference readers start at
\* the readlock gate, its writers at the count of writers.
Entry0(t) ==
  IF t \in Readers
  THEN IF pref = "writer" THEN "gate" ELSE "r_lock"
  ELSE IF pref = "writer" THEN "w_lock" ELSE "w_wait"

\* initialize_rwlock, and the threads created by main.
InitRW ==
  /\ MemIdle
  /\ PCIdle
  /\ MTIdle
  /\ TLBIdle
  /\ pref \in {"reader", "writer"}
  /\ sem = [lock |-> 1, writelock |-> 1, readlock |-> 1, output_lock |-> 1]
  /\ readers = 0
  /\ writers = 0
  /\ pc = [t \in Threads |-> Entry0(t)]
  /\ num_readers = [t \in Threads |-> 0]

Goto(t, l) ==
  /\ pc' = [pc EXCEPT ![t] = l]
  /\ UNCHANGED <<mvars, pcvars, mtvars, tlbvars, pref>>

\* sem_wait(s): proceeds when the semaphore is positive, and decrements it.
sem_wait(t, s, l) ==
  /\ sem[s] > 0
  /\ sem' = [sem EXCEPT ![s] = @ - 1]
  /\ Goto(t, l)
  /\ UNCHANGED <<readers, writers, num_readers>>

sem_post(t, s, l) ==
  /\ sem' = [sem EXCEPT ![s] = @ + 1]
  /\ Goto(t, l)
  /\ UNCHANGED <<readers, writers, num_readers>>

\* rwlock_acquire_readlock, statement by statement.
ReadGate(t) == pc[t] = "gate" /\ sem_wait(t, "readlock", "r_lock")

ReadLock(t) == pc[t] = "r_lock" /\ sem_wait(t, "lock", "r_inc")

ReadInc(t) ==
  /\ pc[t] = "r_inc"
  /\ readers' = readers + 1
  /\ Goto(t, IF readers + 1 = 1 THEN "r_first" ELSE "r_unlock")
  /\ UNCHANGED <<sem, writers, num_readers>>

\* The first reader without the wait for writelock.
FirstReaderNoWait(t) ==
  /\ pc[t] = "r_first"
  /\ Goto(t, "r_unlock")
  /\ UNCHANGED <<sem, readers, writers, num_readers>>

FirstReader(t) == pc[t] = "r_first" /\ sem_wait(t, "writelock", "r_unlock")

ReadUnlock(t) ==
  /\ pc[t] = "r_unlock"
  /\ sem_post(t, "lock", IF pref = "writer" THEN "r_ungate" ELSE "num_lock")

ReadUngate(t) == pc[t] = "r_ungate" /\ sem_post(t, "readlock", "num_lock")

rwlock_acquire_readlock(t) ==
  \/ ReadGate(t)
  \/ ReadLock(t)
  \/ ReadInc(t)
  \/ FirstReader(t)
  \/ ReadUnlock(t)
  \/ ReadUngate(t)

\* The body of reader() and of writer() between acquire and release: the
\* count of readers is read under lock and logged under output_lock, then
\* the shared file is read or written.
NumLock(t) == pc[t] = "num_lock" /\ sem_wait(t, "lock", "num_load")

NumLoad(t) ==
  /\ pc[t] = "num_load"
  /\ num_readers' = [num_readers EXCEPT ![t] = readers]
  /\ Goto(t, "num_unlock")
  /\ UNCHANGED <<sem, readers, writers>>

NumUnlock(t) == pc[t] = "num_unlock" /\ sem_post(t, "lock", "log_lock")

LogLock(t) == pc[t] = "log_lock" /\ sem_wait(t, "output_lock", "log_unlock")

LogUnlock(t) == pc[t] = "log_unlock" /\ sem_post(t, "output_lock", "perform")

\* perform_read / perform_write
Perform(t) ==
  /\ pc[t] = "perform"
  /\ Goto(t, IF t \in Readers THEN "rr_lock" ELSE "wr_post")
  /\ UNCHANGED <<sem, readers, writers, num_readers>>

Inside(t) ==
  \/ NumLock(t)
  \/ NumLoad(t)
  \/ NumUnlock(t)
  \/ LogLock(t)
  \/ LogUnlock(t)
  \/ Perform(t)

\* rwlock_release_readlock
ReadRelLock(t) == pc[t] = "rr_lock" /\ sem_wait(t, "lock", "rr_dec")

ReadDec(t) ==
  /\ pc[t] = "rr_dec"
  /\ readers' = readers - 1
  /\ Goto(t, IF readers - 1 = 0 THEN "rr_last" ELSE "rr_unlock")
  /\ UNCHANGED <<sem, writers, num_readers>>

LastReader(t) == pc[t] = "rr_last" /\ sem_post(t, "writelock", "rr_unlock")

ReadRelUnlock(t) == pc[t] = "rr_unlock" /\ sem_post(t, "lock", "done")

rwlock_release_readlock(t) ==
  \/ ReadRelLock(t)
  \/ ReadDec(t)
  \/ LastReader(t)
  \/ ReadRelUnlock(t)

\* rwlock_acquire_writelock: the reader-preference writer only waits for
\* writelock ("w_wait").
WriteLock(t) == pc[t] = "w_lock" /\ sem_wait(t, "lock", "w_inc")

WriteInc(t) ==
  /\ pc[t] = "w_inc"
  /\ writers' = writers + 1
  /\ Goto(t, IF writers + 1 = 1 THEN "w_gate" ELSE "w_unlock")
  /\ UNCHANGED <<sem, readers, num_readers>>

\* The first writer without the wait for readlock.
FirstWriterNoWait(t) ==
  /\ pc[t] = "w_gate"
  /\ Goto(t, "w_unlock")
  /\ UNCHANGED <<sem, readers, writers, num_readers>>

FirstWriter(t) == pc[t] = "w_gate" /\ sem_wait(t, "readlock", "w_unlock")

WriteUnlock(t) == pc[t] = "w_unlock" /\ sem_post(t, "lock", "w_wait")

WriteWait(t) == pc[t] = "w_wait" /\ sem_wait(t, "writelock", "num_lock")

rwlock_acquire_writelock(t) ==
  \/ WriteLock(t)
  \/ WriteInc(t)
  \/ FirstWriter(t)
  \/ WriteUnlock(t)
  \/ WriteWait(t)

\* rwlock_release_writelock: the reader-preference writer only posts
\* writelock.
WritePost(t) ==
  /\ pc[t] = "wr_post"
  /\ sem_post(t, "writelock", IF pref = "writer" THEN "wr_lock" ELSE "done")

WriteRelLock(t) == pc[t] = "wr_lock" /\ sem_wait(t, "lock", "wr_dec")

WriteDec(t) ==
  /\ pc[t] = "wr_dec"
  /\ writers' = writers - 1
  /\ Goto(t, IF writers - 1 = 0 THEN "wr_ungate" ELSE "wr_unlock")
  /\ UNCHANGED <<sem, readers, num_readers>>

LastWriter(t) == pc[t] = "wr_ungate" /\ sem_post(t, "readlock", "wr_unlock")

WriteRelUnlock(t) == pc[t] = "wr_unlock" /\ sem_post(t, "lock", "done")

rwlock_release_writelock(t) ==
  \/ WritePost(t)
  \/ WriteRelLock(t)
  \/ WriteDec(t)
  \/ LastWriter(t)
  \/ WriteRelUnlock(t)

reader(t) ==
  \/ rwlock_acquire_readlock(t)
  \/ Inside(t)
  \/ rwlock_release_readlock(t)

writer(t) ==
  \/ rwlock_acquire_writelock(t)
  \/ Inside(t)
  \/ rwlock_release_writelock(t)

NextRW ==
  \/ \E t \in Readers : reader(t)
  \/ \E t \in Writers : writer(t)

SpecRW == InitRW /\ [][NextRW]_vars

\* Fair scheduling: a thread whose next statement can run again and again
\* does run it, so no thread is passed over for ever at a semaphore.
FairRW ==
  /\ \A t \in Readers : SF_vars(reader(t))
  /\ \A t \in Writers : SF_vars(writer(t))

SpecRWFair == SpecRW /\ FairRW

-----------------------------------------------------------------------------
(* The bounded buffer (Assignment-4/code/prod-cons.c): one producer thread  *)
(* "p" and one consumer thread "c".                                         *)

\* Slots of the buffer.
MAX == 100

\* Non-zero values in the longest input file.
MaxItems == 102

\* The input file: the values 1..n, ended by a 0 or by the end of the file.
Items(n, zero) == [i \in 1..n |-> i] \o (IF zero THEN <<0>> ELSE <<>>)

Inputs ==
  {Items(n, zero) : n \in {0, 2, MaxItems}, zero \in BOOLEAN}
    \cup {Items(2, TRUE) \o <<3>>}

\* The globals as initialised, and the two threads created by main.
InitPC ==
  /\ MemIdle
  /\ RWIdle
  /\ MTIdle
  /\ TLBIdle
  /\ buffer = [i \in 0..(MAX - 1) |-> 0]
  /\ fill = 0
  /\ use = 0
  /\ count = 0
  /\ producer_done = 0
  /\ mutex = "free"
  /\ cond = [empty_cond |-> {}, fill_cond |-> {}]
  /\ ppc = [p |-> "p_read", c |-> "c_lock"]
  /\ input \in Inputs
  /\ value = 0
  /\ output = <<>>
  /\ logged = <<>>
  /\ produced = <<>>

Jump(t, l) == ppc' = [ppc EXCEPT ![t] = l] /\ UNCHANGED <<mvars, rwvars, mtvars, tlbvars>>

\* The buffer and its indices stay as they are.
Kept == UNCHANGED <<buffer, fill, use, count, output, logged, produced>>

pthread_mutex_lock(t, l) ==
  /\ mutex = "free"
  /\ mutex' = t
  /\ Jump(t, l)
  /\ Kept
  /\ UNCHANGED <<producer_done, cond, input, value>>

pthread_mutex_unlock(t, l) ==
  /\ mutex' = "free"
  /\ Jump(t, l)
  /\ Kept
  /\ UNCHANGED <<producer_done, cond, input, value>>

\* pthread_cond_wait, first half: the mutex is released and t waits on cv.
pthread_cond_wait(t, cv, l) ==
  /\ mutex' = "free"
  /\ cond' = [cond EXCEPT ![cv] = @ \cup {t}]
  /\ Jump(t, l)
  /\ Kept
  /\ UNCHANGED <<producer_done, input, value>>

\* pthread_cond_wait, second half: t was signalled, or wakes up spuriously,
\* and returns with the mutex.
Wakeup(t, cv, l) ==
  /\ mutex = "free"
  /\ mutex' = t
  /\ cond' = [cond EXCEPT ![cv] = @ \ {t}]
  /\ Jump(t, l)
  /\ Kept
  /\ UNCHANGED <<producer_done, input, value>>

\* pthread_cond_signal: one of the waiting threads, if any, is released.
pthread_cond_signal(t, cv, l) ==
  /\ \/ cond[cv] = {} /\ cond' = cond
     \/ \E x \in cond[cv] : cond' = [cond EXCEPT ![cv] = @ \ {x}]
  /\ Jump(t, l)
  /\ Kept
  /\ UNCHANGED <<producer_done, mutex, input, value>>

pthread_cond_broadcast(t, cv, l) ==
  /\ cond' = [cond EXCEPT ![cv] = {}]
  /\ Jump(t, l)
  /\ Kept
  /\ UNCHANGED <<producer_done, mutex, input, value>>

\* while (fscanf(input_file, "%u", &value) == 1)
Scan ==
  /\ ppc["p"] = "p_read"
  /\ IF input = <<>>
     THEN Jump("p", "p_done") /\ UNCHANGED <<input, value>>
     ELSE /\ value' = Head(input)
          /\ input' = Tail(input)
          /\ Jump("p", "p_lock")
  /\ Kept
  /\ UNCHANGED <<producer_done, mutex, cond>>

ProducerLock == ppc["p"] = "p_lock" /\ pthread_mutex_lock("p", "p_full")

\* The producer that does not wait for room in the buffer.
ProducerNoWait ==
  /\ ppc["p"] = "p_full"
  /\ Jump("p", "p_zero")
  /\ Kept
  /\ UNCHANGED <<producer_done, mutex, cond, input, value>>

\* while (count == MAX) pthread_cond_wait(&empty_cond, &mutex)
ProducerFull ==
  /\ ppc["p"] = "p_full"
  /\ IF count = MAX
     THEN pthread_cond_wait("p", "empty_cond", "p_wait")
     ELSE /\ Jump("p", "p_zero")
          /\ Kept
          /\ UNCHANGED <<producer_done, mutex, cond, input, value>>

ProducerWake == ppc["p"] = "p_wait" /\ Wakeup("p", "empty_cond", "p_full")

\* if (value == 0) producer_done = 1
ProducerZero ==
  /\ ppc["p"] = "p_zero"
  /\ IF value = 0
     THEN producer_done' = 1 /\ Jump("p", "p_bcast")
     ELSE producer_done' = producer_done /\ Jump("p", "p_put")
  /\ Kept
  /\ UNCHANGED <<mutex, cond, input, value>>

ProducerBroadcast ==
  ppc["p"] = "p_bcast" /\ pthread_cond_broadcast("p", "fill_cond", "p_break")

ProducerBreak == ppc["p"] = "p_break" /\ pthread_mutex_unlock("p", "p_done")

put ==
  /\ ppc["p"] = "p_put"
  /\ buffer' = [buffer EXCEPT ![fill] = value]
  /\ fill' = (fill + 1) % MAX
  /\ count' = count + 1
  /\ Jump("p", "p_signal")
  /\ produced' = Append(produced, value)
  /\ UNCHANGED <<use, output, logged, producer_done, mutex, cond, input, value>>

ProducerSignal ==
  ppc["p"] = "p_signal" /\ pthread_cond_signal("p", "fill_cond", "p_unlock")

ProducerUnlock == ppc["p"] = "p_unlock" /\ pthread_mutex_unlock("p", "p_read")

produce_values ==
  \/ Scan
  \/ ProducerLock
  \/ ProducerFull
  \/ ProducerWake
  \/ ProducerZero
  \/ ProducerBroadcast
  \/ ProducerBreak
  \/ put
  \/ ProducerSignal
  \/ ProducerUnlock

ConsumerLock == ppc["c"] = "c_lock" /\ pthread_mutex_lock("c", "c_empty")

\* while (count == 0 && !producer_done) pthread_cond_wait(&fill_cond, &mutex)
ConsumerEmpty ==
  /\ ppc["c"] = "c_empty"
  /\ IF count = 0 /\ producer_done = 0
     THEN pthread_cond_wait("c", "fill_cond", "c_wait")
     ELSE /\ Jump("c", "c_exit")
          /\ Kept
          /\ UNCHANGED <<producer_done, mutex, cond, input, value>>

ConsumerWake == ppc["c"] = "c_wait" /\ Wakeup("c", "fill_cond", "c_empty")

\* if (count == 0 && producer_done) { unlock; break; }
ConsumerExit ==
  /\ ppc["c"] = "c_exit"
  /\ IF count = 0 /\ producer_done # 0
     THEN pthread_mutex_unlock("c", "c_done")
     ELSE /\ Jump("c", "c_get")
          /\ Kept
          /\ UNCHANGED <<producer_done, mutex, cond, input, value>>

\* The buffer state log_buffer_state would print if it ran before get.
log_before_get(i, n) == [j \in 1..(n + 1) |-> buffer[(i + MAX - 1 + j - 1) % MAX]]

\* The buffer state printed by log_buffer_state: the n slots from i on.
log_buffer_state(i, n) == [j \in 1..n |-> buffer[(i + j - 1) % MAX]]

\* tmp = get(); log_buffer_state(output_file, tmp)
get ==
  /\ ppc["c"] = "c_get"
  /\ output' = Append(output, buffer[use])
  /\ use' = (use + 1) % MAX
  /\ count' = count - 1
  /\ logged' = log_buffer_state((use + 1) % MAX, count - 1)
  /\ Jump("c", "c_signal")
  /\ UNCHANGED <<buffer, fill, produced, producer_done, mutex, cond, input, value>>

ConsumerSignal ==
  ppc["c"] = "c_signal" /\ pthread_cond_signal("c", "empty_cond", "c_unlock")

\* The end of a round of the consumer's loop: its line is complete.
ConsumerUnlock ==
  /\ ppc["c"] = "c_unlock"
  /\ mutex' = "free"
  /\ logged' = <<>>
  /\ Jump("c", "c_lock")
  /\ UNCHANGED <<buffer, fill, use, count, output, produced, producer_done,
                 cond, input, value>>

consume_values ==
  \/ ConsumerLock
  \/ ConsumerEmpty
  \/ ConsumerWake
  \/ ConsumerExit
  \/ get
  \/ ConsumerSignal
  \/ ConsumerUnlock

NextPC == produce_values \/ consume_values

SpecPC == InitPC /\ [][NextPC]_vars

\* Fair scheduling of the two threads: a thread that can run again and
\* again does run, so neither is passed over for ever at the mutex.
FairPC == SF_vars(produce_values) /\ SF_vars(consume_values)

SpecPCFair == SpecPC /\ FairPC

-----------------------------------------------------------------------------
(* The TLB simulator of Assignment-3/code/2021MT60949.cpp: simulateFIFO,    *)
(* simulateLIFO, simulateLRU and simulateOptimal run one after the other on *)
(* the page numbers of a test case.                                         *)

MaxK == 3
MaxPage == 4
MaxAccesses == 6

Policies == <<"FIFO", "LIFO", "LRU", "Optimal">>

\* MyDS: the list from head to tail; a node has an identity and its data.
pushFront(list, id, v) == <<[id |-> id, data |-> v]>> \o list

pushBack(list, id, v) == Append(list, [id |-> id, data |-> v])

popFront(list) == IF list = <<>> THEN list ELSE Tail(list)

popBack(list) == IF list = <<>> THEN list ELSE SubSeq(list, 1, Len(list) - 1)

removeNode(list, node) == SelectSeq(list, LAMBDA x : x.id # node)

getFront(list) == list[1].data

getBack(list) == list[Len(list)].data

\* unordered_map: erase(key) and operator[](key) = v.
erase(map, key) == [x \in DOMAIN map \ {key} |-> map[x]]

Store(map, key, v) == [x \in DOMAIN map \cup {key} |-> IF x = key THEN v ELSE map[x]]

\* A test case as read by processInput.
InitTLB ==
  /\ MemIdle
  /\ RWIdle
  /\ PCIdle
  /\ MTIdle
  /\ tlbSize \in 1..MaxK
  /\ pageNumbers \in UNION {[1..n -> 1..MaxPage] : n \in 0..MaxAccesses}
  /\ policy = "FIFO"
  /\ idx = 0
  /\ tlbEntries = <<>>
  /\ tlbList = <<>>
  /\ hits = [FIFO |-> 0, LIFO |-> 0, LRU |-> 0, Optimal |-> 0]

\* One round of the loop of the running simulate function, which leaves the
\* map e and the list q and counts h hits more.
Access(e, q, h) ==
  /\ tlbEntries' = e
  /\ tlbList' = q
  /\ hits' = [hits EXCEPT ![policy] = @ + h]
  /\ idx' = idx + 1
  /\ UNCHANGED <<mvars, rwvars, pcvars, mtvars, tlbSize, pageNumbers, policy>>

\* handleTLBMissFIFO that leaves the oldest page in the map.
handleTLBMissFIFO_keep(page, id) ==
  IF Len(tlbList) = tlbSize
  THEN Access(Store(tlbEntries, page, TRUE), pushBack(popFront(tlbList), id, page), 0)
  ELSE Access(Store(tlbEntries, page, TRUE), pushBack(tlbList, id, page), 0)

handleTLBMissFIFO(page, id) ==
  IF Len(tlbList) = tlbSize
  THEN Access(Store(erase(tlbEntries, getFront(tlbList)), page, TRUE),
              pushBack(popFront(tlbList), id, page), 0)
  ELSE Access(Store(tlbEntries, page, TRUE), pushBack(tlbList, id, page), 0)

simulateFIFO ==
  /\ policy = "FIFO"
  /\ idx < Len(pageNumbers)
  /\ IF pageNumbers[idx + 1] \in DOMAIN tlbEntries
     THEN Access(tlbEntries, tlbList, 1)
     ELSE handleTLBMissFIFO(pageNumbers[idx + 1], idx)

handleTLBMissLIFO(page, id) ==
  IF Len(tlbList) = tlbSize
  THEN Access(Store(erase(tlbEntries, getBack(tlbList)), page, TRUE),
              pushBack(popBack(tlbList), id, page), 0)
  ELSE Access(Store(tlbEntries, page, TRUE), pushBack(tlbList, id, page), 0)

simulateLIFO ==
  /\ policy = "LIFO"
  /\ idx < Len(pageNumbers)
  /\ IF pageNumbers[idx + 1] \in DOMAIN tlbEntries
     THEN Access(tlbEntries, tlbList, 1)
     ELSE handleTLBMissLIFO(pageNumbers[idx + 1], idx)

\* cache[page] is the node that holds the page.
handleTLBHitLRU(page, id) ==
  Access(Store(tlbEntries, page, id),
         pushFront(removeNode(tlbList, tlbEntries[page]), id, page), 1)

handleTLBMissLRU(page, id) ==
  IF Len(tlbList) = tlbSize
  THEN Access(Store(erase(tlbEntries, getBack(tlbList)), page, id),
              pushFront(popBack(tlbList), id, page), 0)
  ELSE Access(Store(tlbEntries, page, id), pushFront(tlbList, id, page), 0)

simulateLRU ==
  /\ policy = "LRU"
  /\ idx < Len(pageNumbers)
  /\ IF pageNumbers[idx + 1] \in DOMAIN tlbEntries
     THEN handleTLBHitLRU(pageNumbers[idx + 1], idx)
     ELSE handleTLBMissLRU(pageNumbers[idx + 1], idx)

\* The first loop of simulateOptimal, from the last access i down to the
\* first (positions count from 0 as in the code).
RECURSIVE FillNextUse(_, _, _, _)
FillNextUse(pn, i, lastSeen, nextUse) ==
  IF i < 0 THEN nextUse
  ELSE FillNextUse(pn, i - 1, Store(lastSeen, pn[i + 1], i),
                   [nextUse EXCEPT ![i] = IF pn[i + 1] \in DOMAIN lastSeen
                                          THEN lastSeen[pn[i + 1]]
                                          ELSE Len(pn) + 1])

NextUse(pn) == FillNextUse(pn, Len(pn) - 1, <<>>, [i \in 0..(Len(pn) - 1) |-> 0])

\* The pages whose next use is the nearest.
Nearest(map) == {x \in DOMAIN map : \A y \in DOMAIN map : map[y] >= map[x]}

\* The pages the replacement loop can end with: it keeps the first entry it
\* meets that is greater than all before it, in the order of the map.
Farthest(map) == {x \in DOMAIN map : \A y \in DOMAIN map : map[y] <= map[x]}

simulateOptimal ==
  /\ policy = "Optimal"
  /\ idx < Len(pageNumbers)
  /\ IF pageNumbers[idx + 1] \in DOMAIN tlbEntries
     THEN Access(Store(tlbEntries, pageNumbers[idx + 1], NextUse(pageNumbers)[idx]),
                 tlbList, 1)
     ELSE IF Cardinality(DOMAIN tlbEntries) < tlbSize
     THEN Access(Store(tlbEntries, pageNumbers[idx + 1], NextUse(pageNumbers)[idx]),
                 tlbList, 0)
     ELSE \E pageToReplace \in Farthest(tlbEntries) :
            Access(Store(erase(tlbEntries, pageToReplace), pageNumbers[idx + 1],
                         NextUse(pageNumbers)[idx]),
                   tlbList, 0)

\* The function that runs after the policy p.
After(p) ==
  CASE p = "FIFO" -> "LIFO"
    [] p = "LIFO" -> "LRU"
    [] p = "LRU" -> "Optimal"
    [] p = "Optimal" -> "done"

\* The running function returns its hits, and the next one starts with an
\* empty map and an empty list.
Return ==
  /\ policy \in {"FIFO", "LIFO", "LRU", "Optimal"}
  /\ idx = Len(pageNumbers)
  /\ policy' = After(policy)
  /\ idx' = 0
  /\ tlbEntries' = <<>>
  /\ tlbList' = <<>>
  /\ UNCHANGED <<mvars, rwvars, pcvars, mtvars, tlbSize, pageNumbers, hits>>

NextTLB == simulateFIFO \/ simulateLIFO \/ simulateLRU \/ simulateOptimal \/ Return

SpecTLB == InitTLB /\ [][NextTLB]_vars

-----------------------------------------------------------------------------
(* The allocator under two threads (Assignment-3/code/2021MT60949mmu.h has  *)
(* no lock): each thread makes one call of my_malloc, and the calls         *)
(* interleave between their accesses to free_list, heap_start and heap_end. *)

MTThreads == {"t1", "t2"}

\* The sizes the threads ask for.
MTSizes == {40, 8176, MMAP_THRESHOLD}

\* A fresh allocator; main may make one allocation before it starts the
\* threads.
InitMT ==
  /\ mem = <<>>
  /\ dirty = {}
  /\ maps = {}
  /\ free_list = NULL
  /\ heap_start = NULL
  /\ heap_end = NULL
  /\ st = "ok"
  /\ live = <<>>
  /\ dead = {}
  /\ hist = <<>>
  /\ nwrites = 0
  /\ script = <<>>
  /\ RWIdle
  /\ PCIdle
  /\ TLBIdle
  /\ tpc = [t \in MTThreads \cup {"main"} |-> IF t = "main" THEN "setup" ELSE "wait"]
  /\ tsize \in [MTThreads -> MTSizes]
  /\ tblk = [t \in MTThreads |-> NULL]
  /\ tret = [t \in MTThreads |-> NULL]

\* The caller's side and the other programs stay as they are.
MTFrame ==
  UNCHANGED <<live, dead, hist, nwrites, script, rwvars, pcvars, tlbvars, tsize>>

\* Line 125: total_size of thread t's request.
TotalSize(t) == align_to_page((align_size(tsize[t]) + HDR) % SizeMod)

\* Thread t goes on at l with the machine state s.
Step(t, l, s, os) ==
  /\ OsOk(s, os)
  /\ Commit(s)
  /\ tpc' = [tpc EXCEPT ![t] = IF s.st = "ok" THEN l ELSE "done"]
  /\ MTFrame

\* main allocates 40 bytes before the threads exist.
MainAlloc ==
  /\ tpc["main"] = "setup"
  /\ st = "ok"
  /\ \E os \in 0..NPages : Step("main", "create", my_malloc(Cur, 40, os).s, os)
  /\ UNCHANGED <<tblk, tret>>

\* pthread_create of the two threads.
MainStart ==
  /\ tpc["main"] \in {"setup", "create"}
  /\ st = "ok"
  /\ tpc' = [t \in DOMAIN tpc |-> IF t = "main" THEN "started" ELSE "call"]
  /\ UNCHANGED <<mvars, rwvars, pcvars, tlbvars, tsize, tblk, tret>>

\* Lines 208-220: a request at or above the threshold is mapped, which
\* touches no shared data of the allocator; any other goes on to the scan.
Enter(t) ==
  /\ tpc[t] = "call"
  /\ st = "ok"
  /\ IF align_size(tsize[t]) >= MMAP_THRESHOLD
     THEN \E os \in 0..NPages :
            /\ Step(t, "done", my_malloc(Cur, tsize[t], os).s, os)
            /\ tret' = [tret EXCEPT ![t] = my_malloc(Cur, tsize[t], os).v]
            /\ UNCHANGED tblk
     ELSE /\ Step(t, "scan", Cur, 0)
          /\ UNCHANGED <<tblk, tret>>

\* Line 223: block = find_free_block(aligned_size).
FindFit(t) ==
  /\ tpc[t] = "scan"
  /\ st = "ok"
  /\ IF find_free_block(Cur, align_size(tsize[t])) < 0
     THEN /\ Step(t, "done", Stopped(Cur, find_free_block(Cur, align_size(tsize[t]))), 0)
          /\ UNCHANGED <<tblk, tret>>
     ELSE /\ tblk' = [tblk EXCEPT ![t] = find_free_block(Cur, align_size(tsize[t]))]
          /\ Step(t, IF find_free_block(Cur, align_size(tsize[t])) # NULL
                     THEN "claim" ELSE "test", Cur, 0)
          /\ UNCHANGED tret

\* The block is taken only if it is still free.
ClaimChecked(t) ==
  /\ tpc[t] = "claim"
  /\ st = "ok"
  /\ IF Rd(Cur, tblk[t], OFF_is_free) = 0
     THEN /\ Step(t, "done", Cur, 0)
          /\ tret' = [tret EXCEPT ![t] = NULL]
     ELSE /\ Step(t, "done",
                  Wr(Wr(split_block(Cur, tblk[t], align_size(tsize[t])),
                        tblk[t], OFF_is_free, 0), tblk[t], OFF_magic, MAGIC), 0)
          /\ tret' = [tret EXCEPT ![t] = (tblk[t] + HDR) % SizeMod]
  /\ UNCHANGED tblk

\* Lines 225-227 and 236: split, mark allocated, return block + 1.
Claim(t) ==
  /\ tpc[t] = "claim"
  /\ st = "ok"
  /\ Step(t, "done",
          Wr(Wr(split_block(Cur, tblk[t], align_size(tsize[t])),
                tblk[t], OFF_is_free, 0), tblk[t], OFF_magic, MAGIC), 0)
  /\ tret' = [tret EXCEPT ![t] = (tblk[t] + HDR) % SizeMod]
  /\ UNCHANGED tblk

\* Line 128: is there room at the cursor?
Test(t) ==
  /\ tpc[t] = "test"
  /\ st = "ok"
  /\ Step(t, IF heap_start = NULL
                \/ (heap_end - heap_start) % SizeMod < TotalSize(t)
             THEN "map" ELSE "take", Cur, 0)
  /\ UNCHANGED <<tblk, tret>>

\* The globals after lines 131-143, for the result m of mmap.
Region(r) ==
  IF r.v = NULL THEN r.s
  ELSE [r.s EXCEPT !.heap_start = r.v,
                   !.heap_end = (r.v + HEAP_EXPANSION_SIZE) % SizeMod]

\* Lines 131-143: a new region; heap_start and heap_end are set to it.
Map(t) ==
  /\ tpc[t] = "map"
  /\ st = "ok"
  /\ \E os \in 0..NPages :
       Step(t, IF mmap(Cur, HEAP_EXPANSION_SIZE, os, "arena").v = NULL
               THEN "done" ELSE "take",
            Region(mmap(Cur, HEAP_EXPANSION_SIZE, os, "arena")), os)
  /\ UNCHANGED <<tblk, tret>>

\* Line 147: block = heap_start.
Take(t) ==
  /\ tpc[t] = "take"
  /\ st = "ok"
  /\ tblk' = [tblk EXCEPT ![t] = heap_start]
  /\ Step(t, "bump", Cur, 0)
  /\ UNCHANGED tret

\* Line 148: heap_start = heap_start + total_size.
Bump(t) ==
  /\ tpc[t] = "bump"
  /\ st = "ok"
  /\ Step(t, "init",
          [Cur EXCEPT !.heap_start = (@ + TotalSize(t)) % SizeMod], 0)
  /\ UNCHANGED <<tblk, tret>>

\* Lines 151-177 and 236: the header, the remainder, the two appends.
Register(t) ==
  /\ tpc[t] = "init"
  /\ st = "ok"
  /\ Step(t, "done",
          CarveRest(InitHeader(Cur, tblk[t],
                               (TotalSize(t) - HDR) % SizeMod, 0, 0),
                    tblk[t]), 0)
  /\ tret' = [tret EXCEPT ![t] = (tblk[t] + HDR) % SizeMod]
  /\ UNCHANGED tblk

\* One call of my_malloc by thread t.
thread_malloc(t) ==
  \/ Enter(t)
  \/ FindFit(t)
  \/ Claim(t)
  \/ Test(t)
  \/ Map(t)
  \/ Take(t)
  \/ Bump(t)
  \/ Register(t)

NextMT == MainAlloc \/ MainStart \/ \E t \in MTThreads : thread_malloc(t)

SpecMT == InitMT /\ [][NextMT]_vars

-----------------------------------------------------------------------------
(* Properties of the calls made so far *)

Calls == 1..Len(hist)

\* The caller released only null and pointers it held.
Legal == \A i \in Calls : hist[i].held

\* The OS refused a mapping request of the call.
Refused(e) == e.op # "free" /\ e.asked /\ e.nmap = 0

\* A request whose normalized size is below the large-object threshold.
Small(e) == e.op # "free" /\ e.n > 0 /\ align_size(e.n) < MMAP_THRESHOLD

Large(e) == e.op # "free" /\ align_size(e.n) >= MMAP_THRESHOLD

Overlap(x, y) == x[1] < y[2] /\ y[1] < x[2]

Payload(p) == <<p, p + Capacity(Cur, p)>>

\* C1: after any sequence of calls, an allocate(size) with 0 < size below the
\* large-object threshold that returns non-null returns a block whose payload
\* capacity is at least size and whose payload bytes all lie in mapped memory.
C1_PayloadUsable ==
  Legal => \A i \in Calls :
    (hist[i].op = "malloc" /\ 0 < hist[i].a /\ hist[i].a < MMAP_THRESHOLD
       /\ hist[i].ret # NULL)
    => hist[i].cap >= hist[i].a /\ hist[i].inmap

\* C2: in every reachable state the payload ranges of any two outstanding
\* pointers are disjoint, and no outstanding payload contains the header of
\* another registry block.
C2_PayloadsDisjoint ==
  (Legal /\ st = "ok") =>
    /\ \A p, q \in DOMAIN live : p # q => ~Overlap(Payload(p), Payload(q))
    /\ \A p \in DOMAIN live : \A h \in RegistrySet(Cur) :
         h # p - HDR => ~Overlap(Payload(p), <<h, h + HDR>>)

\* C3: allocate(0) returns null and changes no allocator state (registry,
\* headers, arena cursor, OS mappings), in any reachable state.
C3_ZeroFails ==
  \A i \in Calls :
    (hist[i].op = "malloc" /\ hist[i].a = 0)
    => /\ hist[i].ret = NULL
       /\ hist[i].st = "ok"
       /\ hist[i].same
       /\ ~hist[i].asked

\* allocate(0) was called when the registry held blocks.
C3_Witness ==
  \E i \in Calls :
    /\ hist[i].op = "malloc" /\ hist[i].a = 0
    /\ hist[i].ret = NULL
    /\ Len(hist[i].reg0[4]) >= 2

\* C4: releasing a pointer returned by allocate twice in a row makes the
\* second call report InvalidFree without crashing and without changing
\* allocator state, and a following allocate of the same size succeeds and
\* returns usable memory.
C4_DoubleFree ==
  \A i \in Calls :
    (/\ i + 1 \in Calls
     /\ hist[i].op = "free" /\ hist[i].a # NULL /\ hist[i].held
     /\ hist[i + 1].op = "free" /\ hist[i + 1].a = hist[i].a)
    => /\ hist[i + 1].st = "ok"
       /\ hist[i + 1].diag = "InvalidFree"
       /\ hist[i + 1].same
       /\ \A j \in 1..(i - 1) :
            (/\ i + 2 \in Calls
             /\ hist[j].op = "malloc" /\ hist[j].ret = hist[i].a
             /\ hist[i + 2].op = "malloc" /\ hist[i + 2].a = hist[j].a
             /\ ~Refused(hist[i + 2]))
            => /\ hist[i + 2].st = "ok"
               /\ hist[i + 2].ret # NULL
               /\ hist[i + 2].cap >= hist[i + 2].a
               /\ hist[i + 2].inmap

\* The program is one that allocates blocks of one size, releases every other
\* one and allocates once more, and it has run to its end with every earlier
\* allocation successful.
ReuseDone ==
  /\ \E n \in 2..MaxBlocks, first \in {1, 2}, s \in {24, 40} :
       script = ReuseScript(n, 40, first, s)
  /\ Len(hist) = Len(script)
  /\ \A i \in 1..(Len(hist) - 1) : hist[i].op = "malloc" => hist[i].ret # NULL

Released == {hist[i].a : i \in {j \in Calls : hist[j].op = "free"}}

\* C5: a below-threshold allocate requests an OS mapping only when no free
\* registry block has size >= the normalized request; after allocating N
\* blocks of size S and releasing every other one, allocate(s) with s <= S
\* returns the address of one of the released blocks and makes no OS call.
C5_Reuse ==
  Legal =>
    /\ \A i \in Calls : (Small(hist[i]) /\ hist[i].asked) => ~hist[i].hadfit
    /\ ReuseDone => /\ hist[Len(hist)].ret \in Released
                    /\ ~hist[Len(hist)].asked

\* The program allocates two blocks of size S, releases both and allocates
\* 2 * S; both blocks were returned, next to each other in one arena.
CoalesceRun(S) ==
  /\ \E order \in {<<1, 2>>, <<2, 1>>} : script = CoalesceScript(S, order)
  /\ Len(hist) >= 2
  /\ hist[1].ret # NULL /\ hist[2].ret # NULL
  /\ hist[1].ret + hist[1].cap = hist[2].ret - HDR

FreeBlocks(headers) == {k \in 1..Len(headers) : headers[k].is_free # 0}

\* C6: after allocating two adjacent blocks of size S in one arena and
\* releasing both, in either order, the two are coalesced into a single free
\* registry block of size at least 2*S + header, and a following allocate of
\* 2*S succeeds without a new OS mapping.
C6_Coalesce ==
  \A S \in CoalesceSizes :
    CoalesceRun(S) =>
      /\ Len(hist) >= 4 =>
           /\ hist[4].st = "ok"
           /\ Cardinality(FreeBlocks(hist[4].reg1[4])) = 1
           /\ \A k \in FreeBlocks(hist[4].reg1[4]) :
                hist[4].reg1[4][k].size >= 2 * S + HDR
      /\ Len(hist) >= 5 =>
           /\ hist[5].st = "ok"
           /\ hist[5].ret # NULL
           /\ ~hist[5].asked

\* The first three allocations of the program 32, 64, 128 succeeded and the
\* program has run to its end.
FirstFitDone ==
  /\ script = FirstFitScript
  /\ Len(hist) = 5
  /\ \A i \in 1..3 : hist[i].ret # NULL

Addresses(headers) == {headers[k].at : k \in 1..Len(headers)}

\* C7: from a fresh allocator, allocating 32, 64, 128, releasing the 64-byte
\* block and allocating 50 returns the address of the released block, with no
\* new carve and no OS mapping.
C7_FirstFit ==
  FirstFitDone =>
    /\ hist[5].st = "ok"
    /\ hist[5].ret = hist[2].ret
    /\ ~hist[5].asked
    /\ hist[5].reg1[2] = hist[5].reg0[2] /\ hist[5].reg1[3] = hist[5].reg0[3]
    /\ Addresses(hist[5].reg1[4]) = Addresses(hist[5].reg0[4])

\* The scenario ran to its end and the last allocation returned a block.
C7_Witness ==
  /\ FirstFitDone
  /\ hist[2].a = 64 /\ hist[4].op = "free" /\ hist[4].a = hist[2].ret
  /\ hist[5].a = 50 /\ hist[5].ret # NULL

\* C8: allocate_zeroed(count, elem_size) returns null when count * elem_size
\* overflows the size type; otherwise, when it returns a block, each of the
\* count * elem_size payload bytes reads as zero, also in a reused arena block
\* that held non-zero caller data.
C8_Zeroed ==
  \A i \in Calls :
    hist[i].op = "calloc" =>
      IF hist[i].a * hist[i].b >= SizeMod
      THEN hist[i].ret = NULL /\ hist[i].same /\ hist[i].st = "ok"
      ELSE hist[i].ret # NULL => hist[i].zero

\* allocate_zeroed returned a released block that held caller data and now
\* reads as zero, and a later call with an overflowing product returned null.
C8_Witness ==
  \E i, j \in Calls :
    /\ hist[i].op = "calloc" /\ hist[i].ret # NULL
    /\ hist[i].ret \in Released
    /\ hist[i].hadfit /\ ~hist[i].prezero /\ hist[i].zero
    /\ hist[j].op = "calloc" /\ hist[j].a * hist[j].b >= SizeMod
    /\ hist[j].ret = NULL

\* The pointer returned by call i is not released by the calls between i and j.
Outstanding(i, j) ==
  \A k \in (i + 1)..(j - 1) : ~(hist[k].op = "free" /\ hist[k].a = hist[i].ret)

\* C9: an allocate at or above the large-object threshold followed by its
\* release leaves the registry and the arena cursor as they were; a
\* dedicated-mapped block is never returned by a later below-threshold
\* allocate; a free arena block is never used for an at/above-threshold request.
C9_LargeApart ==
  Legal =>
    /\ \A i \in Calls :
         (/\ i + 1 \in Calls
          /\ Large(hist[i]) /\ hist[i].ret # NULL
          /\ hist[i + 1].op = "free" /\ hist[i + 1].a = hist[i].ret)
         => hist[i + 1].st = "ok" /\ hist[i + 1].reg1 = hist[i].reg0
    /\ \A i, j \in Calls :
         (/\ i < j
          /\ Large(hist[i]) /\ hist[i].ret # NULL
          /\ Outstanding(i, j)
          /\ Small(hist[j]) /\ hist[j].ret # NULL)
         => hist[j].ret # hist[i].ret
    /\ \A i \in Calls :
         (Large(hist[i]) /\ hist[i].ret # NULL)
         => /\ hist[i].nmap > 0
            /\ (hist[i].ret - HDR) \notin Addresses(hist[i].reg0[4])

\* C10: release(null) is a no-op in every reachable state: it reports nothing
\* and leaves registry, headers, arena cursor and OS mappings unchanged.
C10_FreeNull ==
  \A i \in Calls :
    (hist[i].op = "free" /\ hist[i].a = NULL)
    => /\ hist[i].st = "ok"
       /\ hist[i].diag = "none"
       /\ hist[i].same
       /\ ~hist[i].asked

\* release(null) was called when the registry held blocks.
C10_Witness ==
  \E i \in Calls :
    /\ hist[i].op = "free" /\ hist[i].a = NULL
    /\ hist[i].st = "ok"
    /\ Len(hist[i].reg0[4]) >= 2

\* A release of a non-null pointer whose header lies in mapped memory.
Release(e) == e.op = "free" /\ e.a # NULL /\ e.hdr

C12_OutOfMemory ==
  \A i \in Calls :
    (hist[i].op = "malloc" /\ hist[i].a > 0)
    => /\ Refused(hist[i]) => /\ hist[i].st = "ok"
                              /\ hist[i].ret = NULL
                              /\ hist[i].same
       /\ (hist[i].st = "ok" /\ hist[i].ret = NULL) => Refused(hist[i])

\* The OS refused an arena expansion when the registry held blocks, and
\* refused a dedicated mapping.
C12_Witness ==
  \E i, j \in Calls :
    /\ hist[i].op = "malloc" /\ Small(hist[i]) /\ Refused(hist[i])
    /\ hist[i].ret = NULL /\ Len(hist[i].reg0[4]) >= 2
    /\ hist[j].op = "malloc" /\ Large(hist[j]) /\ Refused(hist[j])
    /\ hist[j].ret = NULL

\* A release of a dedicated-mapped block whose munmap the OS refused.
UnmapFailed(e) ==
  /\ Release(e) /\ e.head.magic = MAGIC /\ e.head.is_mmap # 0
  /\ e.asked /\ e.nunmap = 0

\* C13: when release is called on a dedicated-mapped block and the OS unmap
\* call fails, MappingError is reported and the call is otherwise a no-op:
\* registry, arena cursor, headers and mappings are unchanged, and a repeated
\* release of the same pointer does not crash.
C13_UnmapFails ==
  \A i \in Calls :
    UnmapFailed(hist[i])
    => /\ hist[i].st = "ok"
       /\ hist[i].diag = "MappingError"
       /\ hist[i].same
       /\ (/\ i + 1 \in Calls
           /\ hist[i + 1].op = "free" /\ hist[i + 1].a = hist[i].a)
          => /\ hist[i + 1].st = "ok"
             /\ hist[i + 1].diag \in {"none", "MappingError"}
             /\ hist[i + 1].reg1 = hist[i].reg0

\* The OS refused the unmap of a dedicated mapping, and the same pointer was
\* released again at once.
C13_Witness ==
  \E i \in Calls :
    /\ UnmapFailed(hist[i]) /\ hist[i].held
    /\ hist[i].diag = "MappingError"
    /\ i + 1 \in Calls
    /\ hist[i + 1].op = "free" /\ hist[i + 1].a = hist[i].a
    /\ hist[i + 1].st = "ok"

\* The allocation that returned the pointer released by call i.
AllocOf(i) ==
  {j \in 1..(i - 1) : hist[j].op # "free" /\ hist[j].ret # NULL
                                         /\ hist[j].ret = hist[i].a}

\* C14: in every reachable state no block with is_mmap set is reachable from
\* the registry head, and a release of a dedicated-mapped block unmaps exactly
\* the region mapped for it: its start address, and stored size + header =
\* page_round(normalized size + header) bytes.
C14_MappedApart ==
  (Legal /\ st = "ok") =>
    /\ \A h \in RegistrySet(Cur) : Rd(Cur, h, OFF_is_mmap) = 0
    /\ \A i \in Calls : \A j \in AllocOf(i) :
         (hist[i].op = "free" /\ Large(hist[j]) /\ Outstanding(j, i))
         => hist[i].asked
    /\ \A i \in Calls :
         (hist[i].op = "free" /\ hist[i].nunmap > 0)
         => /\ hist[i].maps0 \ hist[i].maps1 =
                 {[base |-> hist[i].head.at, len |-> hist[i].head.size + HDR,
                   kind |-> "mmap"]}
            /\ hist[i].maps1 \subseteq hist[i].maps0
            /\ \A j \in AllocOf(i) :
                 Outstanding(j, i) =>
                   hist[i].head.size + HDR
                     = align_to_page((align_size(hist[j].n) + HDR) % SizeMod)

\* C15: in every reachable state each outstanding pointer points one header
\* past a block whose header has tag = sentinel and is_free = false, so the
\* release of an outstanding pointer is never rejected as InvalidFree.
C15_OutstandingTagged ==
  (Legal /\ st = "ok") =>
    /\ \A p \in DOMAIN live :
         /\ Readable(Cur, (p - HDR) % SizeMod)
         /\ Rd(Cur, (p - HDR) % SizeMod, OFF_magic) = MAGIC
         /\ Rd(Cur, (p - HDR) % SizeMod, OFF_is_free) = 0
    /\ \A i \in Calls :
         (hist[i].op = "free" /\ hist[i].a # NULL) => hist[i].diag # "InvalidFree"

\* Both addresses lie in one OS mapping.
SameMapping(ms, x, y) ==
  \E mp \in ms : /\ mp.base <= x /\ x < mp.base + mp.len
                 /\ mp.base <= y /\ y < mp.base + mp.len

\* C19: the registry lists arena blocks in address order: of two registry
\* blocks in the same arena mapping the one at the lower address comes first,
\* the carved block and the remainder of one carve included.
C19_AddressOrder ==
  (Legal /\ st = "ok") =>
    \A i, j \in 1..Len(Registry(Cur)) :
      (i < j /\ SameMapping(maps, Registry(Cur)[i], Registry(Cur)[j]))
      => Registry(Cur)[i] < Registry(Cur)[j]

\* The registry blocks a release took out of the registry.
Gone(e) == Addresses(e.reg0[4]) \ Addresses(e.reg1[4])

\* C20: whenever release coalesces two blocks they are adjacent in memory:
\* the absorbed block's header starts at the end of the absorbing block's
\* payload, both in one OS mapping, so the merged payload covers only memory
\* of the merged blocks.
C20_CoalesceAdjacent ==
  Legal => \A i \in Calls :
    (hist[i].op = "free" /\ hist[i].st = "ok" /\ Gone(hist[i]) # {})
    => \E k \in 1..Len(hist[i].reg1[4]) : \E k0 \in 1..Len(hist[i].reg0[4]) :
         /\ hist[i].reg0[4][k0].at = hist[i].reg1[4][k].at
         /\ hist[i].reg0[4][k0].size < hist[i].reg1[4][k].size
         /\ (hist[i].reg1[4][k].at + HDR + hist[i].reg0[4][k0].size) \in Gone(hist[i])
         /\ \A x \in Gone(hist[i]) :
              /\ hist[i].reg1[4][k].at + HDR + hist[i].reg0[4][k0].size <= x
              /\ x < hist[i].reg1[4][k].at + HDR + hist[i].reg1[4][k].size
              /\ SameMapping(hist[i].maps0, hist[i].reg1[4][k].at, x)

\* An allocate served by the block the first-fit scan found.
Hit(e) == Small(e) /\ e.fit > 0 /\ e.st = "ok"

\* By how much the block found exceeds the normalized request.
Excess(e) == e.blk0.size - align_size(e.n)

\* The call split the block found: it has the size asked and is followed by
\* a free remainder.
DidSplit(e) ==
  /\ e.blk1.size = align_size(e.n)
  /\ e.blk1.next = RemainderAt(e.fit, e.n)
  /\ e.rem1.is_free # 0
  /\ e.ret = e.fit + HDR

\* The call used the whole block found.
UsedWhole(e) ==
  /\ e.blk1.size = e.blk0.size
  /\ e.blk1.next = e.blk0.next
  /\ e.ret = e.fit + HDR

\* C21 (as the code has it): on a first-fit hit, allocate splits the found
\* block into an exact-size allocated block and a free remainder whenever the
\* block's size exceeds the normalized request by at least one header size
\* plus one alignment unit (48 bytes), and uses the whole block when the
\* excess is smaller than that.
C21_SplitRule ==
  \A i \in Calls :
    Hit(hist[i]) =>
      IF Excess(hist[i]) >= HDR + ALIGNMENT
      THEN DidSplit(hist[i])
      ELSE UsedWhole(hist[i])

\* One run split a block with an excess of exactly 48 bytes and used the
\* whole of a block with an excess of exactly 32 bytes.
C21_Witness ==
  \E i, j \in Calls :
    /\ Hit(hist[i]) /\ Excess(hist[i]) = HDR + ALIGNMENT /\ DidSplit(hist[i])
    /\ Hit(hist[j]) /\ Excess(hist[j]) = HDR /\ UsedWhole(hist[j])
    /\ hist[j].cap = hist[j].blk0.size

\* C21 as stated: the block found is split whenever its size exceeds the
\* normalized request by at least one header size, and used whole only when
\* the excess is smaller than one header.
C21_SplitAtHeader ==
  \A i \in Calls :
    Hit(hist[i]) =>
      IF Excess(hist[i]) >= HDR
      THEN DidSplit(hist[i])
      ELSE UsedWhole(hist[i])

\* The place of the block at h in a list of headers.
IndexOf(headers, h) == CHOOSE k \in 1..Len(headers) : headers[k].at = h

\* The registry h1 is the registry h0 with its k-th block split for n bytes.
SplitShape(h0, h1, k, n) ==
  /\ Len(h1) = Len(h0) + 1
  /\ \A j \in 1..(k - 1) : h1[j] = h0[j]
  /\ h1[k] = [h0[k] EXCEPT !.size = n, !.is_free = 0, !.magic = MAGIC,
                           !.next = h0[k].at + HDR + n]
  /\ h1[k + 1] = [at |-> h0[k].at + HDR + n, size |-> h0[k].size - n - HDR,
                  is_free |-> 1, is_mmap |-> 0, next |-> h0[k].next,
                  magic |-> MAGIC]
  /\ \A j \in (k + 1)..Len(h0) : h1[j + 1] = h0[j]

\* An allocate that split the registry block it found.
Splits(e) ==
  /\ Hit(e) /\ Excess(e) >= HDR + ALIGNMENT
  /\ e.fit \in Addresses(e.reg0[4])

\* C22: when allocate splits a free block of size s for normalized request
\* n, afterwards the allocated block has size exactly n, the remainder has
\* size s - n - header, is free, not mapped and tagged, the remainder is the
\* allocated block's immediate registry successor and the block's old
\* successor follows the remainder; no other block changes.
C22_SplitShape ==
  Legal => \A i \in Calls :
    Splits(hist[i]) =>
      /\ SplitShape(hist[i].reg0[4], hist[i].reg1[4],
                    IndexOf(hist[i].reg0[4], hist[i].fit), align_size(hist[i].n))
      /\ hist[i].reg1[1] = hist[i].reg0[1]
      /\ hist[i].reg1[2] = hist[i].reg0[2]
      /\ hist[i].reg1[3] = hist[i].reg0[3]

\* The mappings an allocate obtained from the OS.
NewMaps(e) == e.maps1 \ e.maps0

\* The mapping a request of n bytes is given on the dedicated-mapping path.
MappedLen(n) == align_to_page((align_size(n) + HDR) % SizeMod)

Fits(h, n) == h.is_free # 0 /\ h.size >= n

\* The places in the registry of the blocks that can hold n bytes.
Fitting(headers, n) == {k \in 1..Len(headers) : Fits(headers[k], n)}

\* C24: find_fit(size) returns the first block in registry order (from the
\* head) that has is_free = true and size >= the request, regardless of
\* address or of better-fitting blocks later in the list, and returns none
\* only if no registry block satisfies both conditions.  (It makes no store:
\* find_free_block yields a block and no machine state.)
C24_FirstInOrder ==
  \A i \in Calls :
    Small(hist[i]) =>
      /\ hist[i].fit >= 0
      /\ hist[i].fit = NULL <=> Fitting(hist[i].reg0[4], align_size(hist[i].n)) = {}
      /\ hist[i].fit # NULL =>
           /\ hist[i].fit \in Addresses(hist[i].reg0[4])
           /\ \A k \in Fitting(hist[i].reg0[4], align_size(hist[i].n)) :
                IndexOf(hist[i].reg0[4], hist[i].fit) <= k

\* A release of an outstanding pointer to an arena block.
ArenaRelease(e) ==
  /\ Release(e) /\ e.held /\ e.st = "ok"
  /\ e.head.magic = MAGIC /\ e.head.is_mmap = 0

\* The payload of the free block h covers the block b, header and payload.
Covers(h, b) ==
  /\ h.is_free # 0
  /\ \/ h.at = b.at /\ h.size >= b.size
     \/ h.at + HDR <= b.at /\ b.at + HDR + b.size <= h.at + HDR + h.size

\* C25: release(p) of an outstanding arena block sets that block's is_free
\* to true and clears its tag, and the block's memory stays covered by a free
\* registry block (itself, or the predecessor that absorbed it) available to
\* later find_fit; arena memory is never unmapped.
C25_ReleasedStaysFree ==
  Legal => \A i \in Calls :
    ArenaRelease(hist[i]) =>
      /\ hist[i].head1.is_free # 0
      /\ hist[i].head1.magic = 0
      /\ \E k \in 1..Len(hist[i].reg1[4]) :
           Covers(hist[i].reg1[4][k], hist[i].head)
      /\ hist[i].maps1 = hist[i].maps0
      /\ ~hist[i].asked

\* The k-th block of the registry h0 has a free successor, a free predecessor.
SuccFree(h0, k) == k < Len(h0) /\ h0[k + 1].is_free # 0
PredFree(h0, k) == k > 1 /\ h0[k - 1].is_free # 0

\* The released block after the pass over its successor.
Grown(h0, k) ==
  IF SuccFree(h0, k)
  THEN [h0[k] EXCEPT !.is_free = 1, !.magic = 0,
                     !.size = h0[k].size + HDR + h0[k + 1].size,
                     !.next = h0[k + 1].next]
  ELSE [h0[k] EXCEPT !.is_free = 1, !.magic = 0]

\* The registry after the two passes of the release of its k-th block.
Coalesced(h0, k) ==
  (IF PredFree(h0, k)
   THEN SubSeq(h0, 1, k - 2)
        \o <<[h0[k - 1] EXCEPT !.size = h0[k - 1].size + HDR + Grown(h0, k).size,
                               !.next = Grown(h0, k).next]>>
   ELSE SubSeq(h0, 1, k - 1) \o <<Grown(h0, k)>>)
  \o SubSeq(h0, k + (IF SuccFree(h0, k) THEN 2 ELSE 1), Len(h0))

\* C26: release(p) on an arena block does exactly one coalescing pass in
\* each direction: first, if the registry successor is free it is unlinked
\* and the block's size grows by header + successor size; then, if the
\* registry predecessor is free, the predecessor's size grows by header + the
\* block's (possibly grown) size and the block is unlinked; no other block's
\* size, flag or link changes.
C26_OnePassEachWay ==
  Legal => \A i \in Calls :
    (ArenaRelease(hist[i]) /\ hist[i].head.at \in Addresses(hist[i].reg0[4])) =>
      /\ hist[i].reg1[4] =
           Coalesced(hist[i].reg0[4], IndexOf(hist[i].reg0[4], hist[i].head.at))
      /\ hist[i].reg1[1] = hist[i].reg0[1]
      /\ hist[i].reg1[2] = hist[i].reg0[2]
      /\ hist[i].reg1[3] = hist[i].reg0[3]

\* One release absorbed the free successor of the block and was absorbed by
\* its free predecessor, with further blocks in the registry.
C26_Witness ==
  \E i \in Calls :
    /\ ArenaRelease(hist[i]) /\ hist[i].head.at \in Addresses(hist[i].reg0[4])
    /\ SuccFree(hist[i].reg0[4], IndexOf(hist[i].reg0[4], hist[i].head.at))
    /\ PredFree(hist[i].reg0[4], IndexOf(hist[i].reg0[4], hist[i].head.at))
    /\ Len(hist[i].reg1[4]) = Len(hist[i].reg0[4]) - 2
    /\ Len(hist[i].reg1[4]) >= 2

\* C27: after any sequence of allocate and release calls, no two consecutive
\* registry blocks are both free (every pair of free registry neighbours has
\* been coalesced).
C27_NoFreeNeighbours ==
  (Legal /\ st = "ok") =>
    \A k \in 1..(Len(Registry(Cur)) - 1) :
      ~(/\ Rd(Cur, Registry(Cur)[k], OFF_is_free) # 0
        /\ Rd(Cur, Registry(Cur)[k + 1], OFF_is_free) # 0)

RECURSIVE Spans(_, _)
\* The bytes the blocks of reg take up by their headers: header + size each.
Spans(s, reg) ==
  IF reg = <<>> THEN 0
  ELSE HDR + Rd(s, Head(reg), OFF_size) + Spans(s, Tail(reg))

\* The calls that obtained an arena region from the OS.
ArenaCalls == {i \in Calls : Small(hist[i]) /\ hist[i].nmap > 0}

\* C28: in every reachable state the sum over all registry blocks of
\* (header size + size) equals the fixed arena region size (16 KiB) times the
\* number of arena mappings obtained so far.
C28_ArenaAccounted ==
  (Legal /\ st = "ok") =>
    Spans(Cur, Registry(Cur)) = HEAP_EXPANSION_SIZE * Cardinality(ArenaCalls)

\* An allocate below the threshold whose first-fit scan found no block.
Miss(e) == Small(e) /\ e.fit = NULL /\ e.st = "ok"

\* What request_new_heap_block carves for a request of n bytes.
CarveLen(n) == align_to_page((align_size(n) + HDR) % SizeMod)

\* The registry holds at h a block of the given size and flag.
Holds(headers, h, size, is_free) ==
  \E k \in 1..Len(headers) :
    /\ headers[k].at = h
    /\ headers[k].size = size
    /\ headers[k].is_free = is_free
    /\ headers[k].is_mmap = 0

\* C29: after every carve the bump cursor equals the end of the current
\* arena region (the whole leftover is turned into one free remainder block),
\* so every below-threshold allocate that misses in the registry obtains
\* exactly one new fixed-size OS mapping, and the carved block plus its
\* remainder always fit inside that mapping.
C29_CarveFillsRegion ==
  /\ heap_start = heap_end
  /\ \A i \in Calls :
       Miss(hist[i]) =>
         /\ hist[i].req = << <<"arena", HEAP_EXPANSION_SIZE>> >>
         /\ hist[i].ret # NULL =>
              /\ NewMaps(hist[i]) = {[base |-> hist[i].ret - HDR,
                                      len |-> HEAP_EXPANSION_SIZE, kind |-> "arena"]}
              /\ hist[i].reg1[2] = hist[i].ret - HDR + HEAP_EXPANSION_SIZE
              /\ hist[i].reg1[3] = hist[i].ret - HDR + HEAP_EXPANSION_SIZE
              /\ CarveLen(hist[i].n) < HEAP_EXPANSION_SIZE
              /\ Holds(hist[i].reg1[4], hist[i].ret - HDR,
                       CarveLen(hist[i].n) - HDR, 0)
              /\ Holds(hist[i].reg1[4], hist[i].ret - HDR + CarveLen(hist[i].n),
                       HEAP_EXPANSION_SIZE - CarveLen(hist[i].n) - HDR, 1)

\* A request missed in a registry that held blocks, and was given a block of
\* a second arena region, the largest the arena path carves.
C29_Witness ==
  \E i \in Calls :
    /\ Miss(hist[i]) /\ hist[i].ret # NULL
    /\ Len(hist[i].reg0[4]) >= 2
    /\ Cardinality(hist[i].maps1) = 2
    /\ CarveLen(hist[i].n) = 3 * PAGE

\* r is the least multiple of unit that is >= x.
RoundsUp(r, x, unit) == r >= x /\ r % unit = 0 /\ r - x < unit

\* The size my_malloc hands to align_to_page for a request of n bytes.
Padded(n) == (align_size(n) + HDR) % SizeMod

\* C30: normalize(size) returns, for every size of the size type, the least
\* multiple of 16 that is >= size (result >= size, result mod 16 = 0,
\* result - size < 16), and page_round(size) likewise returns the least
\* multiple of the page size >= size; stated of the sizes the calls made so
\* far passed to the two functions.
C30_RoundsUp ==
  \A i \in Calls :
    (hist[i].op # "free" /\ hist[i].n > 0) =>
      /\ RoundsUp(align_size(hist[i].n), hist[i].n, ALIGNMENT)
      /\ RoundsUp(align_to_page(Padded(hist[i].n)), Padded(hist[i].n), PAGE)

\* C31: under fixed-width (wrap-around) size arithmetic, for every size > 0
\* up to the maximum value of the size type, allocate(size) either returns
\* null or returns a block whose payload capacity is >= size; a request too
\* large to represent after alignment and header addition is never satisfied
\* with a smaller block.
C31_NeverSmaller ==
  \A i \in Calls :
    (hist[i].op = "malloc" /\ hist[i].a > 0 /\ hist[i].st = "ok"
       /\ hist[i].ret # NULL)
    => hist[i].cap >= hist[i].a

\* C32: every non-null pointer returned by allocate or allocate_zeroed is a
\* multiple of the 16-byte alignment constant (the OS mappings being page
\* aligned), after any sequence of carves, splits and coalesces.
C32_Aligned ==
  \A i \in Calls :
    (hist[i].op # "free" /\ hist[i].st = "ok" /\ hist[i].ret # NULL)
    => hist[i].ret % ALIGNMENT = 0

\* After a release that coalesced blocks, a request of a size that is not a
\* multiple of 16 was served by a split, and the next one from the remainder
\* of that split, inside a page.
C32_Witness ==
  \E j, i \in Calls :
    /\ j < i /\ i + 1 \in Calls
    /\ hist[j].op = "free" /\ Gone(hist[j]) # {}
    /\ Hit(hist[i]) /\ Excess(hist[i]) >= HDR + ALIGNMENT
    /\ hist[i].n % ALIGNMENT # 0
    /\ Hit(hist[i + 1])
    /\ hist[i + 1].fit = RemainderAt(hist[i].fit, hist[i].n)
    /\ hist[i + 1].ret % PAGE # HDR
    /\ hist[i + 1].ret % ALIGNMENT = 0

-----------------------------------------------------------------------------
(* Properties of the allocator under two threads *)

\* Both threads have returned from my_malloc.
BothDone == \A t \in MTThreads : tpc[t] = "done"

\* C33: without external synchronization the allocator is not safe for
\* concurrent use: when two threads' allocate calls both take the same block
\* (the scan or the cursor read by both before either marks the block
\* allocated or advances the cursor), nothing stops either, and both calls
\* return the same payload pointer.
C33_SameBlockSamePointer ==
  (tpc # <<>> /\ BothDone /\ st = "ok") =>
    \A t, u \in MTThreads :
      (/\ t # u
       /\ align_size(tsize[t]) < MMAP_THRESHOLD
       /\ align_size(tsize[u]) < MMAP_THRESHOLD
       /\ tblk[t] # NULL /\ tblk[t] = tblk[u])
      => tret[t] # NULL /\ tret[t] = tret[u]

\* Both threads were given the same pointer into the one arena region.
C33_Witness ==
  /\ tpc # <<>> /\ BothDone /\ st = "ok"
  /\ tret["t1"] # NULL /\ tret["t1"] = tret["t2"]
  /\ free_list # NULL
  /\ Cardinality(maps) = 1

-----------------------------------------------------------------------------
(* Properties of the reader-writer locks *)

\* Thread t is between its acquire and its release of the lock.
InCS(t) ==
  t \in DOMAIN pc
  /\ pc[t] \in {"num_lock", "num_load", "num_unlock", "log_lock", "log_unlock",
                "perform"}

\* C16: in both locks, a writer is inside its critical section only if no
\* reader and no other writer is inside its critical section.
C16_WriterAlone ==
  \A wt \in Writers : InCS(wt) => \A t \in Threads \ {wt} : ~InCS(t)

\* A writer is inside while a first reader and another writer wait for
\* writelock.
C16_Witness ==
  /\ pref \in {"reader", "writer"}
  /\ \E wt \in Writers : InCS(wt)
  /\ \E rd \in Readers : pc[rd] = "r_first"
  /\ \E wt \in Writers : pc[wt] = "w_wait"

\* A writer is registered: writers >= 1 and the first writer is past its
\* wait for readlock.
Registered ==
  /\ pref = "writer"
  /\ writers >= 1
  /\ \A wt \in Writers : pc[wt] # "w_gate"

\* C17: in the writer-preference lock, while a writer is registered no reader
\* that has not passed the readlock gate passes it (so it neither increments
\* readers nor enters the read section) until writers is back to 0.
C17_WriterFirst ==
  [][\A rd \in Readers : (Registered /\ pc[rd] = "gate") => pc'[rd] = "gate"]_vars

\* Readers are inside, a registered writer waits for writelock, and another
\* reader stands at the gate.
C17_Witness ==
  /\ Registered
  /\ sem["readlock"] = 0
  /\ \E rd \in Readers : pc[rd] = "gate"
  /\ \E rd \in Readers : InCS(rd)
  /\ \E wt \in Writers : pc[wt] = "w_wait"

\* The semaphore thread t is about to wait for ("none" at any other
\* statement).
WaitsFor(t) ==
  CASE pc[t] \in {"gate", "w_gate"} -> "readlock"
    [] pc[t] \in {"r_lock", "num_lock", "rr_lock", "w_lock", "wr_lock"} -> "lock"
    [] pc[t] \in {"r_first", "w_wait"} -> "writelock"
    [] pc[t] = "log_lock" -> "output_lock"
    [] OTHER -> "none"

\* Thread t has not finished and waits for a semaphore that is 0.
Blocked(t) == WaitsFor(t) # "none" /\ sem[WaitsFor(t)] = 0

\* Some thread is unfinished and every unfinished thread is blocked.
AllBlocked ==
  /\ \E t \in Threads : pc[t] # "done"
  /\ \A t \in Threads : pc[t] # "done" => Blocked(t)

\* Every thread has returned from reader() or writer().
Finished == \A t \in Threads : pc[t] = "done"

\* C34: in the reader-preference program every thread eventually finishes
\* reader() or writer() under fair scheduling: no reachable state has all
\* unfinished threads blocked on lock, writelock or output_lock.
C34_ReaderPrefFinishes ==
  /\ [](pref = "reader" => ~AllBlocked)
  /\ (pref = "reader") ~> Finished

\* C35: in the writer-preference program every thread eventually finishes
\* reader() or writer() under fair scheduling: no reachable state has all
\* unfinished threads blocked on readlock, lock, writelock or output_lock.
C35_WriterPrefFinishes ==
  /\ [](pref = "writer" => ~AllBlocked)
  /\ (pref = "writer") ~> Finished

-----------------------------------------------------------------------------
(* Properties of the bounded buffer *)

\* The slot that holds the k-th value put and not yet got.
Slot(k) == (use + k) % MAX

\* C18: the buffer holds between 0 and MAX values, fill is use + count
\* modulo MAX, put runs only when count < MAX and get only when count > 0;
\* so the slots from use on hold, in order, the values put and not yet got:
\* none was overwritten and none is read before it was written.
C18_BoundedBuffer ==
  /\ count \in 0..MAX
  /\ fill = (use + count) % MAX
  /\ ppc["p"] = "p_put" => count < MAX
  /\ ppc["c"] = "c_get" => count > 0
  /\ \A k \in 0..(count - 1) : buffer[Slot(k)] = Len(output) + k + 1

\* The producer waits at a full buffer whose indices have wrapped around.
C18_Witness ==
  /\ ppc # <<>>
  /\ ppc["p"] = "p_wait"
  /\ count = MAX
  /\ use > 0
  /\ fill = use

\* The input still to be handled: the value read and not yet put, and the
\* rest of the file.
Unread ==
  (IF ppc["p"] \in {"p_lock", "p_full", "p_wait", "p_zero", "p_put"}
   THEN <<value>> ELSE <<>>) \o input

\* The producer has met a 0.
MetZero == ppc["p"] \in {"p_bcast", "p_break"} \/ producer_done = 1

\* The values put are the values consumed followed by the buffer, and the
\* line being logged lists the buffer.
InOrder ==
  ppc # <<>> =>
    /\ produced = output \o [k \in 1..count |-> buffer[Slot(k - 1)]]
    /\ \A i \in 1..Len(produced) : produced[i] # 0
    /\ (produced \o (IF MetZero THEN <<0>> ELSE <<>>) \o Unread) \in Inputs
    /\ ppc["c"] \in {"c_signal", "c_unlock"} =>
         logged = SubSeq(produced, Len(output) + 1, Len(produced))
    /\ ppc["c"] = "c_done" => output = produced /\ ppc["p"] = "p_done"

C36_ConsumerTerminates ==
  (ppc["p"] = "p_done") ~> (ppc["c"] = "c_done" /\ count = 0)

-----------------------------------------------------------------------------
(* Properties of the TLB simulator *)

\* The pages held by the list.
Listed == {tlbList[k].data : k \in 1..Len(tlbList)}

\* The position (from 0) of the next access to page p after the idx accesses
\* handled, or the number of accesses plus one.
Upcoming(p) ==
  IF \E j \in (idx + 1)..Len(pageNumbers) : pageNumbers[j] = p
  THEN (CHOOSE j \in (idx + 1)..Len(pageNumbers) :
          /\ pageNumbers[j] = p
          /\ \A k \in (idx + 1)..(j - 1) : pageNumbers[k] # p) - 1
  ELSE Len(pageNumbers) + 1

\* C38: with a TLB size K >= 1, for each policy (FIFO, LIFO, LRU, Optimal)
\* after every access the number of resident pages is at most K, the
\* presence map and the policy's ordering structure hold exactly the same
\* set of pages without duplicates (the list of FIFO, LIFO and LRU, whose
\* LRU nodes are the ones the map points to; the next uses kept in the map
\* of Optimal, which are those of the resident pages), and the page just
\* accessed is resident.
C38_Resident ==
  (policy \in {"FIFO", "LIFO", "LRU", "Optimal"} /\ idx >= 1) =>
    /\ Cardinality(DOMAIN tlbEntries) <= tlbSize
    /\ pageNumbers[idx] \in DOMAIN tlbEntries
    /\ policy # "Optimal" =>
         /\ Listed = DOMAIN tlbEntries
         /\ Len(tlbList) = Cardinality(DOMAIN tlbEntries)
    /\ policy = "LRU" =>
         /\ tlbList[1].data = pageNumbers[idx]
         /\ \A k \in 1..Len(tlbList) : tlbEntries[tlbList[k].data] = tlbList[k].id
    /\ policy = "Optimal" =>
         /\ tlbList = <<>>
         /\ \A p \in DOMAIN tlbEntries : tlbEntries[p] = Upcoming(p)

\* simulateFIFO has had a hit and has replaced a page in a full TLB of
\* several entries.
C38_Witness ==
  /\ policy = "FIFO"
  /\ tlbSize >= 2
  /\ Len(tlbList) = tlbSize
  /\ hits["FIFO"] >= 1
  /\ idx >= 1
  /\ pageNumbers[idx] # tlbList[Len(tlbList)].data
  /\ \E j \in 1..idx : pageNumbers[j] \notin DOMAIN tlbEntries

\* C39: for every page access sequence and every TLB size K >= 1 the hit
\* count returned by simulateOptimal is greater than or equal to the hit
\* counts returned by simulateFIFO, simulateLIFO and simulateLRU on the same
\* sequence.
C39_OptimalMost ==
  policy = "done" =>
    /\ hits["Optimal"] >= hits["FIFO"]
    /\ hits["Optimal"] >= hits["LIFO"]
    /\ hits["Optimal"] >= hits["LRU"]

\* A test case on which simulateOptimal has more hits than each of the
\* other three, all of which had to replace pages.
C39_Witness ==
  /\ policy = "done"
  /\ tlbSize >= 2
  /\ hits["Optimal"] > hits["FIFO"]
  /\ hits["Optimal"] > hits["LIFO"]
  /\ hits["Optimal"] > hits["LRU"]

=============================================================================
